--------------------------- MODULE RequestProofs ----------------------------
(***************************************************************************)
(* The requests the panel sends and those it is sent. To KixDNS: a         *)
(* request reads the reply to itself and idle connections cost none, for   *)
(* any number of callers and of kept connections. From browsers: the       *)
(* limiter counts every attempt before its password is checked and a       *)
(* session belongs to the account that earned it, for any number of        *)
(* browsers, addresses, names, slots and any limits.                       *)
(***************************************************************************)
EXTENDS ControlPool, Sessions, FiniteSetTheorems, SequenceTheorems, TLAPS

---------------------------------------------------------------------------
(* Requests to KixDNS.                                                     *)

CallType ==
  [pc : {"idle", "take", "ready", "connect", "send", "head", "body"},
   request : 0 .. MaxRequests, reuses : BOOLEAN, kept : BOOLEAN, wire : Wires \union {NoWire},
   reply : Nat, excused : BOOLEAN, failed : BOOLEAN]
WireType == [open : BOOLEAN, owed : Seq(Nat)]

Typed ==
  /\ idle \in Seq(Wires) /\ wires \in [Wires -> WireType] /\ call \in [Callers -> CallType]
  /\ answering \in BOOLEAN /\ sent \in 0 .. MaxRequests /\ poolEvents \in 0 .. MaxPoolEvents

\* A connection is in one pair of hands.
OneHolder ==
  \A c, d \in Callers : call[c].wire = call[d].wire /\ call[c].wire # NoWire => c = d
KeptByNobody ==
  /\ \A i \in DOMAIN idle : \A c \in Callers : call[c].wire # idle[i]
  /\ \A i, j \in DOMAIN idle : idle[i] = idle[j] => i = j
  /\ \A i \in DOMAIN idle : wires[idle[i]].owed = <<>>
  /\ Len(idle) <= IdleConnections

\* A caller holds a connection at these steps; it owes the reply to the request of its holder.
HoldsItsWire(c) ==
  /\ call[c].pc \in {"ready", "send", "head", "body"} <=> call[c].wire # NoWire
  /\ call[c].pc \in {"ready", "send"} => Wire(c).owed = <<>>
  /\ call[c].pc \in {"head", "body"} /\ Wire(c).open => Wire(c).owed = <<call[c].request>>
  /\ call[c].pc = "body" => call[c].reply = call[c].request

\* A request that finds its connection gone, and cannot try another, is excused.
IsExcused(c) ==
  /\ call[c].pc # "idle" /\ ~answering => call[c].excused
  /\ call[c].pc \in {"send", "head"} /\ ~call[c].kept /\ ~Wire(c).open => call[c].excused
  /\ call[c].pc = "body" /\ ~Wire(c).open => call[c].excused

CallerOK(c) == HoldsItsWire(c) /\ IsExcused(c) /\ ~call[c].failed

PoolInv == Typed /\ OneHolder /\ KeptByNobody /\ \A c \in Callers : CallerOK(c)

USE PoolAssumption DEF PoolAssumption

LEMMA NoWireIsNone == NoWire \notin Wires
BY FS_CardinalityType DEF Wires, NoWire

LEMMA NoCallIsTyped == NoCall \in CallType
BY DEF NoCall, CallType, NoWire

LEMMA GoneIsTyped ==
  /\ Gone \in WireType /\ Gone.owed = <<>> /\ Gone.open = FALSE
  /\ [open |-> TRUE, owed |-> <<>>] \in WireType
BY DEF Gone, WireType

LEMMA PoolInitially == PoolInit => PoolInv
<1> SUFFICES ASSUME PoolInit PROVE PoolInv
  OBVIOUS
<1>1. Typed
  BY NoCallIsTyped, GoneIsTyped DEF PoolInit, Typed
<1>2. \A c \in Callers : call[c] = NoCall
  BY DEF PoolInit
<1>3. idle = <<>> /\ DOMAIN idle = {} /\ Len(idle) = 0
  BY DEF PoolInit
<1>4. \A c \in Callers : /\ call[c].pc = "idle" /\ call[c].wire = NoWire
                         /\ ~call[c].failed
  BY <1>2 DEF NoCall
<1> QED
  BY <1>1, <1>3, <1>4 DEF PoolInv, OneHolder, KeptByNobody, CallerOK, HoldsItsWire, IsExcused

\* A caller's own step: its record and the connection it holds or takes change, no other.
OwnStep(c) ==
  /\ Typed' /\ idle' = idle /\ answering' = answering
  /\ \A d \in Callers \ {c} : call'[d] = call[d]
  /\ \A w \in Wires : w # call[c].wire /\ w # call'[c].wire => wires'[w] = wires[w]
  /\ \/ call'[c].wire \in {call[c].wire, NoWire}
     \/ /\ \A d \in Callers : call[d].wire # call'[c].wire
        /\ \A i \in DOMAIN idle : idle[i] # call'[c].wire

LEMMA OwnStepKeeps ==
  ASSUME PoolInv, NEW c \in Callers, OwnStep(c), CallerOK(c)'
  PROVE  PoolInv'
<1> USE DEF PoolInv
<1>1. OneHolder'
  BY DEF OwnStep, OneHolder
<1>2. \A d \in Callers \ {c} : call[d].wire # NoWire =>
        /\ call[d].wire \in Wires /\ call[d].wire # call[c].wire /\ call[d].wire # call'[c].wire
  BY DEF OwnStep, OneHolder, Typed, CallType
<1>3. \A d \in Callers \ {c} : call[d].wire # NoWire => Wire(d)' = Wire(d)
  BY <1>2 DEF OwnStep, Wire
<1>4. \A d \in Callers \ {c} : CallerOK(d)'
  <2> SUFFICES ASSUME NEW d \in Callers \ {c} PROVE CallerOK(d)'
    OBVIOUS
  <2>1. CallerOK(d) /\ call'[d] = call[d] /\ answering' = answering
    BY DEF OwnStep
  <2>2. call[d].wire # NoWire => Wire(d)' = Wire(d)
    BY <1>3
  <2> QED
    BY <2>1, <2>2 DEF CallerOK, HoldsItsWire, IsExcused
<1>5. KeptByNobody'
  <2>1. \A i \in DOMAIN idle :
          /\ idle[i] \in Wires /\ idle[i] # call[c].wire /\ idle[i] # call'[c].wire
    BY NoWireIsNone DEF OwnStep, KeptByNobody, Typed
  <2>2. \A i \in DOMAIN idle : \A d \in Callers : call'[d].wire # idle[i]
    BY <2>1 DEF OwnStep, KeptByNobody
  <2>3. \A i \in DOMAIN idle : wires'[idle[i]].owed = <<>>
    BY <2>1 DEF OwnStep, KeptByNobody
  <2> QED
    BY <2>2, <2>3 DEF OwnStep, KeptByNobody
<1> QED
  BY <1>1, <1>4, <1>5 DEF OwnStep

\* What the forms of an assignment to a caller's record come to.
LEMMA SetsOne ==
  ASSUME call \in [Callers -> CallType], NEW c \in Callers, NEW r \in CallType,
         call' = [call EXCEPT ![c] = r]
  PROVE  /\ call' \in [Callers -> CallType] /\ call'[c] = r
         /\ \A d \in Callers \ {c} : call'[d] = call[d]
OBVIOUS

LEMMA MovesOn ==
  ASSUME call \in [Callers -> CallType], NEW c \in Callers,
         NEW pc \in {"idle", "take", "ready", "connect", "send", "head", "body"}, AtWire(c, pc)
  PROVE  /\ call' \in [Callers -> CallType]
         /\ \A d \in Callers \ {c} : call'[d] = call[d]
         /\ call'[c].pc = pc /\ call'[c].request = call[c].request
         /\ call'[c].kept = call[c].kept /\ call'[c].wire = call[c].wire
         /\ call'[c].reply = call[c].reply /\ call'[c].excused = call[c].excused
         /\ call'[c].failed = call[c].failed
BY DEF AtWire, CallType

\* The connection a caller takes, or leaves.
Takes(c, pc, kept, wire) ==
  call' = [call EXCEPT ![c].pc = pc, ![c].kept = kept, ![c].wire = wire]

LEMMA TakesWire ==
  ASSUME call \in [Callers -> CallType], NEW c \in Callers,
         NEW pc \in {"idle", "take", "ready", "connect", "send", "head", "body"},
         NEW kept \in BOOLEAN, NEW wire \in Wires \union {NoWire}, Takes(c, pc, kept, wire)
  PROVE  /\ call' \in [Callers -> CallType]
         /\ \A d \in Callers \ {c} : call'[d] = call[d]
         /\ call'[c].pc = pc /\ call'[c].wire = wire
         /\ call'[c].kept = kept /\ call'[c].excused = call[c].excused
         /\ call'[c].failed = call[c].failed
<1> DEFINE r == [call[c] EXCEPT !.pc = pc, !.kept = kept, !.wire = wire]
<1>1. call[c] \in CallType
  OBVIOUS
<1>2. r \in CallType
  BY <1>1 DEF CallType
<1>3. /\ r.pc = pc /\ r.wire = wire /\ r.kept = kept
      /\ r.excused = call[c].excused /\ r.failed = call[c].failed
  BY <1>1 DEF CallType
<1>4. call' = [call EXCEPT ![c] = r]
  BY DEF Takes
<1> HIDE DEF r
<1> QED
  BY <1>2, <1>3, <1>4

LEMMA DroppedWires ==
  ASSUME Typed, NEW c \in Callers
  PROVE  /\ Dropped(c) \in [Wires -> WireType]
         /\ \A w \in Wires : w # call[c].wire => Dropped(c)[w] = wires[w]
BY GoneIsTyped DEF Dropped, Typed

\* A request that ends, excused if it failed, leaves everything in order.
LEMMA EndedKeeps ==
  ASSUME PoolInv, NEW c \in Callers, NEW r \in CallType,
         r.pc = "idle", r.wire = NoWire, ~r.failed,
         call' = [call EXCEPT ![c] = r], wires' = Dropped(c), idle' = idle,
         answering' = answering, sent' = sent, poolEvents' \in 0 .. MaxPoolEvents
  PROVE  PoolInv'
<1>1. OwnStep(c)
  BY SetsOne, DroppedWires DEF PoolInv, OwnStep, Typed
<1>2. CallerOK(c)'
  BY SetsOne DEF PoolInv, Typed, CallerOK, HoldsItsWire, IsExcused
<1> QED
  BY <1>1, <1>2, OwnStepKeeps

LEMMA AnsweredRecord ==
  ASSUME Typed, NEW c \in Callers, NEW failed \in BOOLEAN, failed => call[c].excused
  PROVE  LET r == [NoCall EXCEPT !.failed = failed /\ ~call[c].excused]
         IN  r \in CallType /\ r.pc = "idle" /\ r.wire = NoWire /\ ~r.failed
BY NoCallIsTyped DEF Typed, CallType, NoCall

LEMMA FailsKeeps ==
  ASSUME PoolInv, NEW c \in Callers, call[c].excused, Fails(c),
         idle' = idle, answering' = answering, sent' = sent, poolEvents' = poolEvents
  PROVE  PoolInv'
<1> DEFINE r == [NoCall EXCEPT !.failed = TRUE /\ ~call[c].excused]
<1>1. r \in CallType /\ r.pc = "idle" /\ r.wire = NoWire /\ ~r.failed
  BY AnsweredRecord, TRUE \in BOOLEAN DEF PoolInv
<1>2. call' = [call EXCEPT ![c] = r] /\ wires' = Dropped(c)
  BY DEF Fails, Answered
<1> HIDE DEF r
<1> QED
  BY <1>1, <1>2, EndedKeeps DEF PoolInv, Typed

LEMMA TriesNextKeeps ==
  ASSUME PoolInv, NEW c \in Callers, call[c].pc # "idle", TriesNext(c),
         idle' = idle, answering' = answering, sent' = sent, poolEvents' = poolEvents
  PROVE  PoolInv'
<1>1. Takes(c, "take", FALSE, NoWire) /\ wires' = Dropped(c)
  BY DEF TriesNext, Takes
<1>2. /\ call' \in [Callers -> CallType]
      /\ \A d \in Callers \ {c} : call'[d] = call[d]
      /\ call'[c].pc = "take" /\ call'[c].wire = NoWire
      /\ call'[c].excused = call[c].excused /\ call'[c].failed = call[c].failed
  BY <1>1, TakesWire, FALSE \in BOOLEAN DEF PoolInv, Typed
<1>3. OwnStep(c)
  BY <1>1, <1>2, DroppedWires DEF PoolInv, OwnStep, Typed
<1>4. CallerOK(c)'
  BY <1>2 DEF PoolInv, CallerOK, HoldsItsWire, IsExcused
<1> QED
  BY <1>3, <1>4, OwnStepKeeps

---------------------------------------------------------------------------
(* The steps of a caller.                                                  *)

Requested(none, p, n, reuses, excused) ==
  [none EXCEPT !.pc = p, !.request = n, !.reuses = reuses, !.excused = excused]

LEMMA NewRequest ==
  ASSUME NEW none \in CallType, NEW p \in {"take", "connect"}, NEW n \in 0 .. MaxRequests,
         NEW reuses \in BOOLEAN, NEW excused \in BOOLEAN
  PROVE  /\ Requested(none, p, n, reuses, excused) \in CallType
         /\ Requested(none, p, n, reuses, excused).pc = p
         /\ Requested(none, p, n, reuses, excused).wire = none.wire
         /\ Requested(none, p, n, reuses, excused).excused = excused
         /\ Requested(none, p, n, reuses, excused).failed = none.failed
BY DEF CallType, Requested

LEMMA BeginRequestKeeps == ASSUME PoolInv, NEW c \in Callers, BeginRequest(c) PROVE PoolInv'
<1>1. /\ call[c].pc = "idle" /\ sent < MaxRequests /\ sent' = sent + 1
      /\ idle' = idle /\ wires' = wires /\ answering' = answering /\ poolEvents' = poolEvents
  BY Zenon DEF BeginRequest
<1>2. PICK reuses \in BOOLEAN :
        call' = [call EXCEPT ![c] = [NoCall EXCEPT !.pc = IF reuses THEN "take" ELSE "connect",
                                       !.request = sent + 1, !.reuses = reuses,
                                       !.excused = ~answering]]
  BY Zenon DEF BeginRequest
<1> DEFINE p == IF reuses THEN "take" ELSE "connect"
           e == ~answering
           n == sent + 1
           r == Requested(NoCall, p, n, reuses, e)
<1>3. p \in {"take", "connect"} /\ e \in BOOLEAN /\ n \in 0 .. MaxRequests
  BY <1>1 DEF PoolInv, Typed
<1>4. call' = [call EXCEPT ![c] = r]
  BY <1>2, Zenon DEF Requested
<1> HIDE DEF p, e, n
<1>5. /\ r \in CallType /\ r.pc = p /\ r.wire = NoCall.wire /\ r.excused = e
      /\ r.failed = NoCall.failed
  BY <1>3, NoCallIsTyped, NewRequest
<1>6. r.pc \in {"take", "connect"} /\ r.wire = NoWire /\ ~r.failed /\ (~answering => r.excused)
  BY <1>3, <1>5 DEF e, NoCall
<1> HIDE DEF r
<1>7. OwnStep(c)
  BY <1>1, <1>3, <1>4, <1>5, <1>6, SetsOne DEF PoolInv, OwnStep, Typed, n
<1>8. CallerOK(c)'
  BY <1>1, <1>4, <1>5, <1>6, SetsOne DEF PoolInv, Typed, CallerOK, HoldsItsWire, IsExcused
<1> QED
  BY <1>7, <1>8, OwnStepKeeps

LEMMA TakeIdleKeeps == ASSUME PoolInv, NEW c \in Callers, TakeIdle(c) PROVE PoolInv'
<1> USE DEF PoolInv
<1>1. CASE idle = <<>>
  <2>1. AtWire(c, "connect") /\ idle' = idle /\ wires' = wires
    BY <1>1 DEF TakeIdle
  <2>2. OwnStep(c)
    BY <2>1, MovesOn DEF OwnStep, Typed, TakeIdle
  <2>3. CallerOK(c)'
    BY <2>1, MovesOn DEF Typed, CallerOK, HoldsItsWire, IsExcused, TakeIdle
  <2> QED
    BY <2>2, <2>3, OwnStepKeeps
<1>2. CASE idle # <<>>
  <2> DEFINE w == Last(idle)
  <2>1. /\ idle \in Seq(Wires) /\ Len(idle) \in Nat /\ Len(idle) # 0
        /\ Len(idle) \in DOMAIN idle /\ w = idle[Len(idle)] /\ w \in Wires /\ w # NoWire
    BY <1>2, NoWireIsNone DEF Typed, Last
  <2>2. /\ idle' \in Seq(Wires) /\ Len(idle') = Len(idle) - 1
        /\ \A i \in DOMAIN idle' : i \in DOMAIN idle /\ i # Len(idle) /\ idle'[i] = idle[i]
    BY <1>2, <2>1 DEF TakeIdle, Front
  <2>3. Takes(c, "ready", TRUE, w)
    BY <1>2, Zenon DEF TakeIdle, Takes
  <2> HIDE DEF w
  <2>4. /\ call' \in [Callers -> CallType]
        /\ \A d \in Callers \ {c} : call'[d] = call[d]
        /\ call'[c].pc = "ready" /\ call'[c].wire = w
        /\ call'[c].excused = call[c].excused /\ call'[c].failed = call[c].failed
    BY <2>1, <2>3, TakesWire, TRUE \in BOOLEAN DEF Typed
  <2>5. wires' = wires /\ answering' = answering /\ sent' = sent /\ poolEvents' = poolEvents
    BY DEF TakeIdle
  <2>6. \A d \in Callers : call[d].wire # w
    BY <2>1 DEF KeptByNobody
  <2>7. OneHolder'
    BY <2>4, <2>6 DEF OneHolder
  <2>8. KeptByNobody'
    <3>1. \A i \in DOMAIN idle' : \A d \in Callers : call'[d].wire # idle'[i]
      BY <2>1, <2>2, <2>4 DEF KeptByNobody
    <3>2. \A i, j \in DOMAIN idle' : idle'[i] = idle'[j] => i = j
      BY <2>2 DEF KeptByNobody
    <3>3. \A i \in DOMAIN idle' : wires'[idle'[i]].owed = <<>>
      BY <2>2, <2>5 DEF KeptByNobody
    <3> QED
      BY <2>1, <2>2, <3>1, <3>2, <3>3 DEF KeptByNobody
  <2>9. wires[w].owed = <<>>
    BY <2>1 DEF KeptByNobody
  <2>10. CallerOK(c)'
    BY <2>1, <2>4, <2>5, <2>9 DEF CallerOK, HoldsItsWire, IsExcused, Wire, TakeIdle
  <2>11. \A d \in Callers \ {c} : CallerOK(d)'
    BY <2>4, <2>5 DEF CallerOK, HoldsItsWire, IsExcused, Wire
  <2> QED
    BY <2>2, <2>4, <2>5, <2>7, <2>8, <2>10, <2>11 DEF Typed
<1> QED
  BY <1>1, <1>2

LEMMA ConnectionReadyKeeps ==
  ASSUME PoolInv, NEW c \in Callers, ConnectionReady(c) PROVE PoolInv'
<1> USE DEF PoolInv
<1>1. CASE Wire(c).open
  <2>1. AtWire(c, "send") /\ idle' = idle /\ wires' = wires
    BY <1>1 DEF ConnectionReady
  <2>2. OwnStep(c)
    BY <2>1, MovesOn DEF OwnStep, Typed, ConnectionReady
  <2>3. CallerOK(c)'
    BY <1>1, <2>1, MovesOn DEF Typed, CallerOK, HoldsItsWire, IsExcused, Wire, ConnectionReady
  <2> QED
    BY <2>2, <2>3, OwnStepKeeps
<1>2. CASE ~Wire(c).open
  BY <1>2, TriesNextKeeps DEF ConnectionReady
<1> QED
  BY <1>1, <1>2

LEMMA ConnectKeeps == ASSUME PoolInv, NEW c \in Callers, Connect(c) PROVE PoolInv'
<1> USE DEF PoolInv
<1>1. CASE answering
  <2> DEFINE used == ToSet(idle) \union {call[d].wire : d \in Callers}
  <2>1. PICK w \in Wires :
          /\ w \notin used
          /\ wires' = [wires EXCEPT ![w] = [open |-> TRUE, owed |-> <<>>]]
          /\ call' = [call EXCEPT ![c].pc = "send", ![c].kept = FALSE, ![c].wire = w]
    BY <1>1, Zenon DEF Connect
  <2>2. /\ w # NoWire
        /\ \A d \in Callers : call[d].wire # w
        /\ \A i \in DOMAIN idle : idle[i] # w
    BY <2>1, NoWireIsNone DEF ToSet
  <2>3. Takes(c, "send", FALSE, w)
    BY <2>1, Zenon DEF Takes
  <2>4. /\ call' \in [Callers -> CallType]
        /\ \A d \in Callers \ {c} : call'[d] = call[d]
        /\ call'[c].pc = "send" /\ call'[c].wire = w
        /\ call'[c].excused = call[c].excused /\ call'[c].failed = call[c].failed
    BY <2>3, TakesWire, FALSE \in BOOLEAN DEF Typed
  <2> DEFINE fresh == [open |-> TRUE, owed |-> <<>>]
  <2>5. fresh \in WireType /\ fresh.open /\ fresh.owed = <<>>
    BY GoneIsTyped
  <2>6. wires' = [wires EXCEPT ![w] = fresh]
    BY <2>1
  <2> HIDE DEF fresh, used
  <2>7. /\ wires' \in [Wires -> WireType] /\ wires'[w] = fresh
        /\ \A v \in Wires : v # w => wires'[v] = wires[v]
    BY <2>5, <2>6 DEF Typed
  <2>8. OwnStep(c)
    BY <2>2, <2>4, <2>7 DEF OwnStep, Typed, Connect
  <2>9. CallerOK(c)'
    BY <1>1, <2>2, <2>4, <2>5, <2>7 DEF CallerOK, HoldsItsWire, IsExcused, Wire, Connect
  <2> QED
    BY <2>8, <2>9, OwnStepKeeps
<1>2. CASE ~answering
  BY <1>2, FailsKeeps DEF Connect, CallerOK, IsExcused
<1> QED
  BY <1>1, <1>2

\* Closed: the next kept connection, or the end of an excused request.
LEMMA ClosedKeeps ==
  ASSUME PoolInv, NEW c \in Callers, call[c].pc \in {"send", "head"}, ~Wire(c).open, Closed(c),
         idle' = idle, answering' = answering, sent' = sent, poolEvents' = poolEvents
  PROVE  PoolInv'
<1>1. CASE call[c].kept
  BY <1>1, TriesNextKeeps DEF Closed
<1>2. CASE ~call[c].kept
  BY <1>2, FailsKeeps DEF Closed, PoolInv, CallerOK, IsExcused
<1> QED
  BY <1>1, <1>2

LEMMA SendKeeps == ASSUME PoolInv, NEW c \in Callers, Send(c) PROVE PoolInv'
<1> USE DEF PoolInv
<1>1. CASE Wire(c).open
  <2> DEFINE w == call[c].wire
             after == [wires[w] EXCEPT !.owed = Append(@, call[c].request)]
  <2>1. /\ AtWire(c, "head") /\ idle' = idle /\ answering' = answering
        /\ wires' = [wires EXCEPT ![w] = after]
    BY <1>1 DEF Send
  <2>2. w \in Wires /\ w # NoWire /\ wires[w] \in WireType /\ wires[w].owed = <<>>
    BY DEF Send, CallerOK, HoldsItsWire, Wire, Typed, CallType
  <2>3. call[c].request \in Nat
    BY DEF Typed, CallType
  <2>10. Append(<<>>, call[c].request) = <<call[c].request>>
    OBVIOUS
  <2>11. <<call[c].request>> \in Seq(Nat)
    BY <2>3
  <2>4. after \in WireType /\ after.open = wires[w].open /\ after.owed = <<call[c].request>>
    BY <2>2, <2>10, <2>11 DEF WireType
  <2> HIDE DEF after
  <2>5. /\ wires' \in [Wires -> WireType] /\ wires'[w] = after
        /\ \A v \in Wires : v # w => wires'[v] = wires[v]
    BY <2>1, <2>2, <2>4 DEF Typed
  <2>6. OwnStep(c)
    BY <2>1, <2>5, MovesOn DEF OwnStep, Typed, Send
  <2>7. /\ call'[c].pc = "head" /\ call'[c].wire = w /\ Wire(c)' = after
        /\ call'[c].request = call[c].request /\ call'[c].excused = call[c].excused
        /\ call'[c].failed = call[c].failed
    BY <2>1, <2>5, MovesOn DEF Typed, Wire
  <2>8. after.open /\ call[c].pc = "send"
    BY <1>1, <2>4 DEF Wire, Send
  <2>9. CallerOK(c)'
    BY <2>1, <2>2, <2>4, <2>7, <2>8 DEF CallerOK, HoldsItsWire, IsExcused
  <2> QED
    BY <2>6, <2>9, OwnStepKeeps
<1>2. CASE ~Wire(c).open
  BY <1>2, ClosedKeeps DEF Send
<1> QED
  BY <1>1, <1>2

LEMMA ReceiveHeadKeeps == ASSUME PoolInv, NEW c \in Callers, ReceiveHead(c) PROVE PoolInv'
<1> USE DEF PoolInv
<1>1. CASE Wire(c).open
  <2>1. Wire(c).owed = <<call[c].request>> /\ Head(Wire(c).owed) = call[c].request
    BY <1>1 DEF ReceiveHead, CallerOK, HoldsItsWire
  <2>2. call[c].request \in Nat /\ call[c] \in CallType
    BY DEF Typed, CallType
  <2>3. call' = [call EXCEPT ![c].pc = "body", ![c].reply = call[c].request]
    BY <1>1, <2>1 DEF ReceiveHead
  <2>4. /\ call' \in [Callers -> CallType]
        /\ \A d \in Callers \ {c} : call'[d] = call[d]
        /\ call'[c].pc = "body" /\ call'[c].wire = call[c].wire
        /\ call'[c].reply = call[c].request /\ call'[c].request = call[c].request
        /\ call'[c].excused = call[c].excused /\ call'[c].failed = call[c].failed
    BY <2>2, <2>3 DEF Typed, CallType
  <2>5. idle' = idle /\ wires' = wires /\ answering' = answering
    BY <1>1 DEF ReceiveHead
  <2>6. OwnStep(c)
    BY <1>1, <2>4, <2>5 DEF OwnStep, Typed, ReceiveHead
  <2>7. Wire(c)' = Wire(c)
    BY <2>4, <2>5 DEF Wire
  <2>8. CallerOK(c)'
    BY <1>1, <2>1, <2>4, <2>5, <2>7 DEF CallerOK, HoldsItsWire, IsExcused, ReceiveHead
  <2> QED
    BY <2>6, <2>8, OwnStepKeeps
<1>2. CASE ~Wire(c).open
  BY <1>2, ClosedKeeps DEF ReceiveHead
<1> QED
  BY <1>1, <1>2

LEMMA NoCallFields == NoCall.pc = "idle" /\ NoCall.wire = NoWire /\ ~NoCall.failed
BY DEF NoCall

LEMMA TimesOutKeeps == ASSUME PoolInv, NEW c \in Callers, TimesOut(c) PROVE PoolInv'
<1>1. /\ call' = [call EXCEPT ![c] = NoCall] /\ wires' = Dropped(c)
      /\ idle' = idle /\ answering' = answering /\ sent' = sent
  BY DEF TimesOut
<1>2. poolEvents' \in 0 .. MaxPoolEvents
  BY DEF TimesOut, PoolEvent, PoolInv, Typed
<1> QED
  BY <1>1, <1>2, EndedKeeps, NoCallIsTyped, NoCallFields

LEMMA DropCallKeeps == ASSUME PoolInv, NEW c \in Callers, DropCall(c) PROVE PoolInv'
<1>1. /\ call' = [call EXCEPT ![c] = NoCall] /\ wires' = Dropped(c)
      /\ idle' = idle /\ answering' = answering /\ sent' = sent
  BY DEF DropCall
<1>2. poolEvents' \in 0 .. MaxPoolEvents
  BY DEF DropCall, PoolEvent, PoolInv, Typed
<1> QED
  BY <1>1, <1>2, EndedKeeps, NoCallIsTyped, NoCallFields

LEMMA ReadReplyKeeps == ASSUME PoolInv, NEW c \in Callers, ReadReply(c) PROVE PoolInv'
<1> USE DEF PoolInv
<1>1. CASE ~Wire(c).open
  BY <1>1, FailsKeeps DEF ReadReply, CallerOK, IsExcused
<1>2. CASE Wire(c).open
  <2>1. PICK whole \in BOOLEAN :
          /\ Answered(c, FALSE)
          /\ IF Keeps(c, whole)
             THEN /\ idle' = Append(idle, call[c].wire)
                  /\ wires' = IF whole THEN [wires EXCEPT ![call[c].wire].owed = Tail(@)]
                               ELSE wires
             ELSE wires' = Dropped(c) /\ UNCHANGED idle
    BY <1>2, Zenon DEF ReadReply
  <2> DEFINE r == [NoCall EXCEPT !.failed = FALSE /\ ~call[c].excused]
             w == call[c].wire
  <2>2. r \in CallType /\ r.pc = "idle" /\ r.wire = NoWire /\ ~r.failed
    BY AnsweredRecord, FALSE \in BOOLEAN
  <2>3. call' = [call EXCEPT ![c] = r]
    BY <2>1 DEF Answered
  <2> HIDE DEF r
  <2>4. answering' = answering /\ sent' = sent /\ poolEvents' = poolEvents /\ call[c].pc = "body"
    BY DEF ReadReply
  <2>5. CASE ~Keeps(c, whole)
    BY <2>1, <2>2, <2>3, <2>4, <2>5, EndedKeeps DEF Typed
  <2>6. CASE Keeps(c, whole)
    <3>1. /\ idle' = Append(idle, w) /\ wires' = [wires EXCEPT ![w].owed = Tail(wires[w].owed)]
          /\ Len(idle) < IdleConnections
      BY <2>1, <2>6 DEF Keeps
    <3>2. w \in Wires /\ w # NoWire /\ wires[w] \in WireType
      BY <2>4 DEF CallerOK, HoldsItsWire, Typed, CallType
    <3>3. wires[w].owed = <<call[c].request>>
      BY <1>2, <2>4 DEF CallerOK, HoldsItsWire, Wire
    <3>4. Tail(wires[w].owed) = <<>> /\ <<>> \in Seq(Nat)
      BY <3>3
    <3> DEFINE after == [wires[w] EXCEPT !.owed = Tail(wires[w].owed)]
    <3>5. /\ wires' \in [Wires -> WireType] /\ wires'[w].owed = <<>>
          /\ \A v \in Wires : v # w => wires'[v] = wires[v]
      <4>1. after = [wires[w] EXCEPT !.owed = <<>>]
        BY <3>4
      <4>2. after \in WireType /\ after.owed = <<>>
        BY <3>2, <3>4, <4>1 DEF WireType
      <4>3. wires' = [wires EXCEPT ![w] = after]
        BY <3>1
      <4> HIDE DEF after
      <4> QED
        BY <3>2, <4>2, <4>3 DEF Typed
    <3>6. /\ idle' \in Seq(Wires) /\ Len(idle') = Len(idle) + 1 /\ Len(idle) \in Nat
          /\ DOMAIN idle' = DOMAIN idle \union {Len(idle) + 1}
          /\ Len(idle) + 1 \notin DOMAIN idle
          /\ idle'[Len(idle) + 1] = w /\ \A i \in DOMAIN idle : idle'[i] = idle[i]
      BY <3>1, <3>2 DEF Typed
    <3>7. /\ call' \in [Callers -> CallType] /\ call'[c] = r
          /\ \A d \in Callers \ {c} : call'[d] = call[d] /\ call[d].wire # w
      BY <2>2, <2>3, <3>2, SetsOne DEF Typed, OneHolder
    <3>8. \A i \in DOMAIN idle : idle[i] # w /\ idle[i] \in Wires
      BY DEF KeptByNobody, Typed
    <3>9. OneHolder'
      BY <2>2, <3>7 DEF OneHolder
    <3>10. \A i \in DOMAIN idle' : \A d \in Callers : call'[d].wire # idle'[i]
      BY <2>2, <3>2, <3>6, <3>7, <3>8, NoWireIsNone DEF KeptByNobody
    <3>11. \A i, j \in DOMAIN idle' : idle'[i] = idle'[j] => i = j
      BY <3>6, <3>8 DEF KeptByNobody
    <3>12. \A i \in DOMAIN idle' : wires'[idle'[i]].owed = <<>>
      BY <3>5, <3>6, <3>8 DEF KeptByNobody
    <3>13. KeptByNobody'
      BY <3>1, <3>6, <3>10, <3>11, <3>12 DEF KeptByNobody
    <3>14. CallerOK(c)'
      BY <2>2, <3>7 DEF CallerOK, HoldsItsWire, IsExcused
    <3>15. \A d \in Callers \ {c} : CallerOK(d)'
      <4> SUFFICES ASSUME NEW d \in Callers \ {c} PROVE CallerOK(d)'
        OBVIOUS
      <4>1. call[d].wire # NoWire => Wire(d)' = Wire(d)
        BY <3>5, <3>7 DEF Wire, Typed, CallType
      <4> QED
        BY <2>4, <3>7, <4>1 DEF CallerOK, HoldsItsWire, IsExcused
    <3> QED
      BY <2>4, <3>5, <3>6, <3>7, <3>9, <3>13, <3>14, <3>15 DEF Typed
  <2> QED
    BY <2>5, <2>6
<1> QED
  BY <1>1, <1>2

---------------------------------------------------------------------------
(* The steps of KixDNS.                                                    *)

LEMMA ServerEndsKeeps == ASSUME PoolInv, ServerEnds PROVE PoolInv'
<1> USE DEF PoolInv
<1>1. /\ wires' = [w \in Wires |-> Gone] /\ idle' = idle /\ sent' = sent /\ answering' = FALSE
      /\ poolEvents' \in 0 .. MaxPoolEvents
  BY DEF ServerEnds, PoolEvent, Typed
<1>2. call' = [d \in Callers |-> [call[d] EXCEPT !.excused = call[d].pc # "idle"]]
  BY DEF ServerEnds, Excusing
<1>3. /\ call' \in [Callers -> CallType]
      /\ \A d \in Callers :
           /\ call'[d].pc = call[d].pc /\ call'[d].wire = call[d].wire
           /\ call'[d].reply = call[d].reply /\ call'[d].request = call[d].request
           /\ call'[d].failed = call[d].failed /\ call'[d].kept = call[d].kept
           /\ call[d].pc # "idle" => call'[d].excused
  BY <1>2 DEF Typed, CallType
<1>4. wires' \in [Wires -> WireType] /\ \A w \in Wires : wires'[w].owed = <<>> /\ ~wires'[w].open
  BY <1>1, GoneIsTyped
<1>5. OneHolder' /\ KeptByNobody'
  <2>1. OneHolder'
    BY <1>3 DEF OneHolder
  <2>2. \A i \in DOMAIN idle : idle[i] \in Wires
    BY DEF Typed
  <2>3. KeptByNobody'
    BY <1>1, <1>3, <1>4, <2>2 DEF KeptByNobody
  <2> QED
    BY <2>1, <2>3
<1>6. \A d \in Callers : CallerOK(d)'
  <2> SUFFICES ASSUME NEW d \in Callers PROVE CallerOK(d)'
    OBVIOUS
  <2>1. call[d].wire # NoWire => Wire(d)'.owed = <<>> /\ ~Wire(d)'.open
    BY <1>3, <1>4 DEF Wire, Typed, CallType
  <2> QED
    BY <1>1, <1>3, <2>1 DEF CallerOK, HoldsItsWire, IsExcused
<1> QED
  BY <1>1, <1>3, <1>4, <1>5, <1>6 DEF Typed

LEMMA ServerStartsKeeps == ASSUME PoolInv, ServerStarts PROVE PoolInv'
BY DEF PoolInv, ServerStarts, Typed, OneHolder, KeptByNobody, CallerOK, HoldsItsWire, IsExcused,
       Wire

LEMMA ServerClosesIdleKeeps == ASSUME PoolInv, ServerClosesIdle PROVE PoolInv'
<1> USE DEF PoolInv
<1>1. PICK w : /\ \/ w \in ToSet(idle)
                  \/ \E c \in Callers : /\ w = call[c].wire /\ call[c].kept
                                        /\ call[c].pc \in {"ready", "send", "head"}
               /\ wires' = [wires EXCEPT ![w] = Gone]
  BY DEF ServerClosesIdle
<1>2. /\ idle' = idle /\ call' = call /\ answering' = answering /\ sent' = sent
      /\ poolEvents' \in 0 .. MaxPoolEvents
  BY DEF ServerClosesIdle, PoolEvent, Typed
<1>3. /\ wires' \in [Wires -> WireType]
      /\ \A v \in Wires : wires'[v] = wires[v] \/ (v = w /\ wires'[v] = Gone)
  BY <1>1, GoneIsTyped DEF Typed
<1>4. KeptByNobody'
  BY <1>2, <1>3, GoneIsTyped DEF KeptByNobody, Typed
<1>5. \A d \in Callers : CallerOK(d)'
  <2> SUFFICES ASSUME NEW d \in Callers PROVE CallerOK(d)'
    OBVIOUS
  <2>1. call[d].wire # NoWire => \/ Wire(d)' = Wire(d)
                                 \/ call[d].wire = w /\ Wire(d)' = Gone
    BY <1>2, <1>3 DEF Wire, Typed, CallType
  <2>2. call[d].wire # NoWire /\ call[d].wire = w =>
          call[d].kept /\ call[d].pc \in {"ready", "send", "head"}
    BY <1>1 DEF KeptByNobody, OneHolder, ToSet
  <2> QED
    BY <1>2, <2>1, <2>2, GoneIsTyped DEF CallerOK, HoldsItsWire, IsExcused
<1> QED
  BY <1>2, <1>3, <1>4, <1>5 DEF Typed, OneHolder

---------------------------------------------------------------------------
LEMMA PoolSteps == PoolInv /\ [PoolNext]_poolVars => PoolInv'
<1> SUFFICES ASSUME PoolInv, [PoolNext]_poolVars PROVE PoolInv'
  OBVIOUS
<1>1. CASE UNCHANGED poolVars
  BY <1>1 DEF poolVars, PoolInv, Typed, OneHolder, KeptByNobody, CallerOK, HoldsItsWire,
              IsExcused, Wire
<1>2. CASE PoolNext
  BY <1>2, BeginRequestKeeps, TakeIdleKeeps, ConnectionReadyKeeps, ConnectKeeps, SendKeeps,
     ReceiveHeadKeeps, TimesOutKeeps, ReadReplyKeeps, DropCallKeeps, ServerEndsKeeps,
     ServerStartsKeeps, ServerClosesIdleKeeps DEF PoolNext
<1> QED
  BY <1>1, <1>2

\* Requests read the reply to themselves, connections are in one pair of hands, and no
\* request fails for a connection that went idle (control.rs:747).
THEOREM CallsAlwaysAnswered == PoolSpec => []CallsAreAnswered
<1>1. PoolInv => CallsAreAnswered
  <2> SUFFICES ASSUME PoolInv PROVE CallsAreAnswered
    OBVIOUS
  <2>1. PoolTypeOK
    BY DEF PoolInv, Typed, PoolTypeOK, ToSet, CallType, WireType
  <2> QED
    BY <2>1 DEF PoolInv, CallsAreAnswered, CallerOK, HoldsItsWire, KeptByNobody
<1> QED
  BY <1>1, PoolInitially, PoolSteps, PTL DEF PoolSpec

---------------------------------------------------------------------------
(* Logins, sessions and the first account.                                 *)

USE SessionsAssumption DEF SessionsAssumption

---------------------------------------------------------------------------
(* The table of attempts: one entry per key, counted per address.          *)

Entry == [key : KeysOfLogins, failures : 1 .. MaxAttempts, checks : Nat]

OneEntryPerKey(table) == \A i, j \in DOMAIN table : table[i].key = table[j].key => i = j
KeysIn(table) == {table[i].key : i \in DOMAIN table}
NamesAt(table, address) == {key \in KeysIn(table) : key[1] = address}

\* A table with the counts kept beside it.
Sound(table, counts) ==
  /\ table \in Seq(Entry) /\ OneEntryPerKey(table) /\ Len(table) <= MaxKeys
  /\ counts \in [Sources -> 0 .. MaxNames]
  /\ \A a \in Sources : counts[a] = Held(table, a)

\* Entries counted are keys counted.
LEMMA HeldIsNames ==
  ASSUME NEW table \in Seq(Entry), OneEntryPerKey(table), NEW a
  PROVE  IsFiniteSet(NamesAt(table, a)) /\ Held(table, a) = Cardinality(NamesAt(table, a))
<1> DEFINE I == {i \in DOMAIN table : table[i].key[1] = a}
           K == NamesAt(table, a)
           f == [i \in I |-> table[i].key]
<1>1. IsFiniteSet(I)
  <2>1. 1 \in Int /\ Len(table) \in Int /\ DOMAIN table = 1 .. Len(table)
    BY LenProperties
  <2>2. IsFiniteSet(1 .. Len(table))
    BY <2>1, FS_Interval, Zenon
  <2> QED
    BY <2>1, <2>2, FS_Subset
<1>2. f \in Bijection(I, K)
  <2>1. f \in [I -> K]
    BY DEF NamesAt, KeysIn
  <2>2. \A i, j \in I : f[i] = f[j] => i = j
    BY DEF OneEntryPerKey
  <2>3. \A k \in K : \E i \in I : f[i] = k
    BY DEF NamesAt, KeysIn
  <2> QED
    BY <2>1, <2>2, <2>3 DEF Bijection, Injection, Surjection, IsInjective
<1> QED
  BY <1>1, <1>2, FS_Bijection DEF Held, ExistsBijection

LEMMA HeldIsNat ==
  ASSUME NEW table \in Seq(Entry), OneEntryPerKey(table), NEW a
  PROVE  Held(table, a) \in Nat
BY HeldIsNames, FS_CardinalityType

\* Fewer keys, fewer counted.
LEMMA HeldIsMonotone ==
  ASSUME NEW table \in Seq(Entry), OneEntryPerKey(table),
         NEW fewer \in Seq(Entry), OneEntryPerKey(fewer), KeysIn(fewer) \subseteq KeysIn(table),
         NEW a
  PROVE  Held(fewer, a) <= Held(table, a)
<1>1. NamesAt(fewer, a) \subseteq NamesAt(table, a)
  BY DEF NamesAt
<1> QED
  BY <1>1, HeldIsNames, FS_Subset

\* A key that goes is one less where it was counted.
LEMMA HeldWithout ==
  ASSUME NEW table \in Seq(Entry), OneEntryPerKey(table), NEW key \in KeysIn(table),
         NEW fewer \in Seq(Entry), OneEntryPerKey(fewer), KeysIn(fewer) = KeysIn(table) \ {key},
         NEW a
  PROVE  /\ a = key[1] => Held(fewer, a) = Held(table, a) - 1 /\ Held(table, a) > 0
         /\ a # key[1] => Held(fewer, a) = Held(table, a)
<1>1. CASE a = key[1]
  <2>1. NamesAt(fewer, a) = NamesAt(table, a) \ {key} /\ key \in NamesAt(table, a)
    BY <1>1 DEF NamesAt
  <2>2. Held(fewer, a) \in Nat /\ Held(table, a) \in Nat
    BY HeldIsNat
  <2> QED
    BY <1>1, <2>1, <2>2, HeldIsNames, FS_RemoveElement
<1>2. CASE a # key[1]
  <2>1. NamesAt(fewer, a) = NamesAt(table, a)
    BY <1>2 DEF NamesAt
  <2> QED
    BY <1>2, <2>1, HeldIsNames
<1> QED
  BY <1>1, <1>2

\* A new key is one more.
LEMMA HeldWith ==
  ASSUME NEW table \in Seq(Entry), OneEntryPerKey(table), NEW key, key \notin KeysIn(table),
         NEW more \in Seq(Entry), OneEntryPerKey(more), KeysIn(more) = KeysIn(table) \union {key},
         NEW a
  PROVE  /\ a = key[1] => Held(more, a) = Held(table, a) + 1
         /\ a # key[1] => Held(more, a) = Held(table, a)
<1>1. CASE a = key[1]
  <2>1. NamesAt(more, a) = NamesAt(table, a) \union {key} /\ key \notin NamesAt(table, a)
    BY <1>1 DEF NamesAt
  <2> QED
    BY <1>1, <2>1, HeldIsNames, FS_AddElement
<1>2. CASE a # key[1]
  <2>1. NamesAt(more, a) = NamesAt(table, a)
    BY <1>2 DEF NamesAt
  <2> QED
    BY <1>2, <2>1, HeldIsNames
<1> QED
  BY <1>1, <1>2

\* The entries of one table are among those of another.
Among(fewer, table) == \A i \in DOMAIN fewer : \E j \in DOMAIN table : fewer[i] = table[j]

LEMMA RemovedAt ==
  ASSUME NEW S, NEW table \in Seq(S), NEW i \in DOMAIN table
  PROVE  /\ RemoveAt(table, i) \in Seq(S)
         /\ Len(RemoveAt(table, i)) = Len(table) - 1 /\ Len(table) \in Nat \ {0}
         /\ DOMAIN RemoveAt(table, i) = 1 .. (Len(table) - 1)
         /\ \A j \in 1 .. (Len(table) - 1) : (j < i => RemoveAt(table, i)[j] = table[j])
              /\ (j >= i => RemoveAt(table, i)[j] = table[j + 1])
<1> DEFINE before == SubSeq(table, 1, i - 1)
           after == SubSeq(table, i + 1, Len(table))
<1>1. Len(table) \in Nat \ {0} /\ i \in 1 .. Len(table) /\ \A j \in 1 .. Len(table) : table[j] \in S
  BY LenProperties
<1>2. /\ before \in Seq(S) /\ Len(before) = i - 1
      /\ \A j \in 1 .. (i - 1) : before[j] = table[j]
  BY <1>1, SubSeqProperties
<1>3. /\ after \in Seq(S) /\ Len(after) = Len(table) - i
      /\ \A j \in 1 .. (Len(table) - i) : after[j] = table[i + j]
  <2>1. \A j \in (i + 1) .. Len(table) : table[j] \in S
    BY <1>1
  <2>2. /\ after \in Seq(S)
        /\ Len(after) = IF i + 1 <= Len(table) THEN Len(table) - (i + 1) + 1 ELSE 0
        /\ \A j \in 1 .. (Len(table) - (i + 1) + 1) : after[j] = table[(i + 1) + j - 1]
    <3> DEFINE first == i + 1
               last == Len(table)
    <3>1. first \in Int /\ last \in Int /\ \A j \in first .. last : table[j] \in S
      BY <1>1, <2>1
    <3> HIDE DEF first, last
    <3>2. /\ SubSeq(table, first, last) \in Seq(S)
          /\ Len(SubSeq(table, first, last)) = IF first <= last THEN last - first + 1 ELSE 0
          /\ \A j \in 1 .. (last - first + 1) : SubSeq(table, first, last)[j] = table[first + j - 1]
      BY <3>1, SubSeqProperties
    <3> QED
      BY <3>2 DEF first, last
  <2> HIDE DEF after
  <2>3. Len(after) = Len(table) - i
    BY <1>1, <2>2
  <2>4. \A j \in 1 .. (Len(table) - i) : after[j] = table[i + j]
    <3> TAKE j \in 1 .. (Len(table) - i)
    <3>1. j \in 1 .. (Len(table) - (i + 1) + 1) /\ (i + 1) + j - 1 = i + j
      BY <1>1
    <3> QED
      BY <2>2, <3>1
  <2> QED
    BY <2>2, <2>3, <2>4
<1>4. RemoveAt(table, i) = before \o after
  BY DEF RemoveAt
<1> HIDE DEF before, after
<1>5. Len(before) + Len(after) = Len(table) - 1
  BY <1>1, <1>2, <1>3
<1>6. /\ before \o after \in Seq(S) /\ Len(before \o after) = Len(table) - 1
      /\ \A j \in 1 .. (Len(table) - 1) :
           (before \o after)[j] = IF j <= i - 1 THEN before[j] ELSE after[j - (i - 1)]
  <2>1. /\ before \o after \in Seq(S) /\ Len(before \o after) = Len(before) + Len(after)
        /\ \A j \in 1 .. Len(before) + Len(after) :
             (before \o after)[j] = IF j <= Len(before) THEN before[j] ELSE after[j - Len(before)]
    <3>1. before \in Seq(S) /\ after \in Seq(S)
      BY <1>2, <1>3
    <3> QED
      BY <3>1, ConcatProperties
  <2> QED
    BY <1>2, <1>5, <2>1
<1>7. ASSUME NEW j \in 1 .. (Len(table) - 1)
      PROVE  /\ j < i => (before \o after)[j] = table[j]
             /\ j >= i => (before \o after)[j] = table[j + 1]
  <2>1. CASE j < i
    <3>1. j <= i - 1 /\ j \in 1 .. (i - 1)
      BY <1>1, <2>1
    <3> QED
      BY <1>1, <1>2, <1>6, <2>1, <3>1
  <2>2. CASE j >= i
    <3> DEFINE m == j - (i - 1)
    <3>1. ~(j <= i - 1) /\ ~(j < i) /\ m \in 1 .. (Len(table) - i) /\ i + m = j + 1
      BY <1>1, <2>2
    <3>2. (before \o after)[j] = after[m]
      BY <1>6, <3>1
    <3> HIDE DEF m
    <3>3. after[m] = table[j + 1]
      BY <1>3, <3>1
    <3> QED
      BY <3>1, <3>2, <3>3
  <2> QED
    BY <1>1, <2>1, <2>2
<1>8. DOMAIN (before \o after) = 1 .. (Len(table) - 1)
  BY <1>6, LenProperties
<1> QED
  BY <1>1, <1>4, <1>6, <1>7, <1>8

\* prune: the oldest entries go.
LEMMA PrunedIsSound ==
  ASSUME Sound(attempts, perAddress), overdue \in 0 .. Len(attempts)
  PROVE  Sound(LivePruned, Recounted(perAddress, LivePruned)) /\ Among(LivePruned, attempts)
<1> DEFINE table == LivePruned
<1>1. /\ table \in Seq(Entry) /\ Len(table) = Len(attempts) - overdue
      /\ DOMAIN table = 1 .. (Len(attempts) - overdue)
      /\ \A i \in DOMAIN table : table[i] = attempts[overdue + i] /\ overdue + i \in DOMAIN attempts
  BY SubSeqProperties, LenProperties DEF Sound, LivePruned
<1> HIDE DEF table
<1>2. OneEntryPerKey(table)
  <2> SUFFICES ASSUME NEW i \in DOMAIN table, NEW j \in DOMAIN table, table[i].key = table[j].key
               PROVE  i = j
    BY DEF OneEntryPerKey
  <2>1. overdue + i = overdue + j
    BY <1>1 DEF Sound, OneEntryPerKey
  <2> QED
    BY <1>1, <2>1
<1>3. Among(table, attempts)
  BY <1>1 DEF Among
<1>4. KeysIn(table) \subseteq KeysIn(attempts)
  BY <1>3 DEF Among, KeysIn
<1>5. \A a \in Sources : Held(table, a) \in 0 .. MaxNames
  <2> SUFFICES ASSUME NEW a \in Sources PROVE Held(table, a) \in 0 .. MaxNames
    OBVIOUS
  <2>1. Held(table, a) \in Nat
    BY <1>1, <1>2, HeldIsNat
  <2>2. Held(table, a) <= Held(attempts, a)
    BY <1>1, <1>2, <1>4, HeldIsMonotone DEF Sound
  <2> QED
    BY <2>1, <2>2 DEF Sound
<1>6. Sound(table, Recounted(perAddress, table))
  <2>1. CASE table = attempts
    BY <2>1 DEF Sound, Recounted
  <2>2. CASE table # attempts
    BY <2>2, <1>1, <1>2, <1>5 DEF Sound, Recounted
  <2> QED
    BY <2>1, <2>2
<1> QED
  BY <1>3, <1>6 DEF table

\* A key goes, with its entry and its count.
LEMMA OneOut ==
  ASSUME NEW table, NEW counts, Sound(table, counts), NEW i \in DOMAIN table
  PROVE  /\ Sound(RemoveAt(table, i), [counts EXCEPT ![table[i].key[1]] = @ - 1])
         /\ Len(RemoveAt(table, i)) = Len(table) - 1 /\ Among(RemoveAt(table, i), table)
         /\ KeysIn(RemoveAt(table, i)) = KeysIn(table) \ {table[i].key}
<1> DEFINE key == table[i].key
           fewer == RemoveAt(table, i)
<1> DEFINE n == Len(table)
<1>1. /\ fewer \in Seq(Entry) /\ Len(fewer) = n - 1 /\ n \in Nat \ {0}
      /\ DOMAIN fewer = 1 .. (n - 1) /\ DOMAIN table = 1 .. n /\ i \in 1 .. n
      /\ \A j \in 1 .. (n - 1) : (j < i => fewer[j] = table[j])
                                 /\ (j >= i => fewer[j] = table[j + 1])
  BY RemovedAt, LenProperties DEF Sound
<1> HIDE DEF n, fewer
<1>2. OneEntryPerKey(fewer)
  <2> SUFFICES ASSUME NEW j \in 1 .. (n - 1), NEW k \in 1 .. (n - 1), fewer[j].key = fewer[k].key,
                      j # k
               PROVE  FALSE
    BY <1>1 DEF OneEntryPerKey
  <2> DEFINE J == IF j < i THEN j ELSE j + 1
             K == IF k < i THEN k ELSE k + 1
  <2>1. J \in 1 .. n /\ K \in 1 .. n /\ J # K
    BY <1>1
  <2>2. fewer[j] = table[J]
    BY <1>1, j < i \/ j >= i
  <2>3. fewer[k] = table[K]
    BY <1>1, k < i \/ k >= i
  <2> QED
    BY <1>1, <2>1, <2>2, <2>3 DEF Sound, OneEntryPerKey
<1>3. \A j \in DOMAIN fewer : \E k \in DOMAIN table : k # i /\ fewer[j] = table[k]
  <2> SUFFICES ASSUME NEW j \in 1 .. (n - 1)
               PROVE  \E k \in 1 .. n : k # i /\ fewer[j] = table[k]
    BY <1>1
  <2>1. CASE j < i
    <3>1. j \in 1 .. n /\ j # i /\ fewer[j] = table[j]
      BY <1>1, <2>1
    <3> QED
      BY <3>1
  <2>2. CASE j >= i
    <3>1. j + 1 \in 1 .. n /\ j + 1 # i /\ fewer[j] = table[j + 1]
      BY <1>1, <2>2
    <3> QED
      BY <3>1
  <2> QED
    BY <1>1, <2>1, <2>2
<1>4. \A k \in DOMAIN table : k # i => \E j \in DOMAIN fewer : fewer[j] = table[k]
  <2> SUFFICES ASSUME NEW k \in 1 .. n, k # i
               PROVE  \E j \in 1 .. (n - 1) : fewer[j] = table[k]
    BY <1>1
  <2>1. CASE k < i
    <3>1. k \in 1 .. (n - 1) /\ fewer[k] = table[k]
      BY <1>1, <2>1
    <3> QED
      BY <3>1
  <2>2. CASE k > i
    <3>1. k - 1 \in 1 .. (n - 1) /\ k - 1 >= i /\ (k - 1) + 1 = k
      BY <2>2, <1>1
    <3>2. fewer[k - 1] = table[k]
      BY <3>1, <1>1
    <3> QED
      BY <3>1, <3>2
  <2> QED
    BY <2>1, <2>2, <1>1
<1>5. KeysIn(fewer) = KeysIn(table) \ {key}
  BY <1>3, <1>4, SMTT(20) DEF KeysIn, Sound, OneEntryPerKey
<1>6. table[i] \in Entry /\ key \in KeysIn(table) /\ key[1] \in Sources
  <2>1. table[i] \in Entry
    BY <1>1, LenProperties DEF Sound, n
  <2> QED
    BY <2>1, <1>1 DEF KeysIn, Entry, KeysOfLogins
<1>7. \A a \in Sources : /\ a = key[1] => Held(fewer, a) = Held(table, a) - 1 /\ Held(table, a) > 0
                         /\ a # key[1] => Held(fewer, a) = Held(table, a)
  <2> SUFFICES ASSUME NEW a \in Sources
               PROVE  /\ a = key[1] => Held(fewer, a) = Held(table, a) - 1 /\ Held(table, a) > 0
                      /\ a # key[1] => Held(fewer, a) = Held(table, a)
    OBVIOUS
  <2>1. table \in Seq(Entry) /\ OneEntryPerKey(table)
    BY DEF Sound
  <2> HIDE DEF key
  <2> QED
    BY <1>1, <1>2, <1>5, <1>6, <2>1, HeldWithout
<1>8. Sound(fewer, [counts EXCEPT ![key[1]] = @ - 1])
  <2> DEFINE c == [counts EXCEPT ![key[1]] = counts[key[1]] - 1]
  <2>1. counts[key[1]] \in 1 .. MaxNames
    BY <1>6, <1>7 DEF Sound
  <2>2. c \in [Sources -> 0 .. MaxNames] /\ \A a \in Sources : c[a] = Held(fewer, a)
    BY <1>6, <1>7, <2>1, SMTT(20) DEF Sound
  <2> QED
    BY <1>1, <1>2, <2>2 DEF Sound
<1> QED
  BY <1>1, <1>3, <1>5, <1>8 DEF Among, fewer, n

\* remove: the entry of a key, if it has one.
LEMMA RemovedIsSound ==
  ASSUME NEW table, NEW counts, Sound(table, counts), NEW key
  PROVE  /\ Sound(Without(table, key), CountedOut(counts, table, key))
         /\ Among(Without(table, key), table)
         /\ EntriesOf(Without(table, key), key) = {}
<1>1. CASE EntriesOf(table, key) = {}
  BY <1>1 DEF Without, CountedOut, Among
<1>2. CASE EntriesOf(table, key) # {}
  <2> DEFINE i == CHOOSE i \in EntriesOf(table, key) : TRUE
  <2>1. i \in DOMAIN table /\ table[i].key = key
    BY <1>2 DEF EntriesOf
  <2>2. Without(table, key) = RemoveAt(table, i)
    BY <1>2 DEF Without
  <2>3. CountedOut(counts, table, key) = [counts EXCEPT ![key[1]] = @ - 1]
    BY <1>2 DEF CountedOut
  <2> HIDE DEF i
  <2>4. /\ Sound(RemoveAt(table, i), [counts EXCEPT ![table[i].key[1]] = @ - 1])
        /\ Among(RemoveAt(table, i), table)
        /\ KeysIn(RemoveAt(table, i)) = KeysIn(table) \ {table[i].key}
    BY <2>1, OneOut, Zenon
  <2>5. EntriesOf(RemoveAt(table, i), key) = {}
    BY <2>1, <2>4 DEF EntriesOf, KeysIn
  <2> QED
    BY <2>1, <2>2, <2>3, <2>4, <2>5
<1> QED
  BY <1>1, <1>2

\* What reserving a key does to its entries: one more counted, or a new entry.
OneMore(more, table, key) ==
  /\ EntriesOf(more, key) # {}
  /\ \A i \in DOMAIN more :
       \/ more[i].key # key /\ \E j \in DOMAIN table : more[i] = table[j]
       \/ /\ more[i].key = key
          /\ \E j \in DOMAIN table : /\ table[j].key = key /\ more[i].checks = table[j].checks
                                     /\ more[i].failures = table[j].failures + 1
       \/ /\ more[i].key = key /\ EntriesOf(table, key) = {}
          /\ more[i].checks = 0 /\ more[i].failures = 1

\* A key with an entry has one more attempt.
LEMMA KnownIsSound ==
  ASSUME NEW table, NEW counts, Sound(table, counts), NEW key \in KeysOfLogins,
         EntriesOf(table, key) # {}, ~Exhausted(table, key)
  PROVE  /\ Sound(Reserved(table, key), ReservedCounts(table, counts, key))
         /\ OneMore(Reserved(table, key), table, key)
<1> DEFINE n == Len(table)
           more == Reserved(table, key)
<1>1. n \in Nat /\ DOMAIN table = 1 .. n /\ \A i \in 1 .. n : table[i] \in Entry
  BY LenProperties DEF Sound
<1> HIDE DEF n
<1>2. more = [i \in 1 .. n |-> IF table[i].key = key
                               THEN [table[i] EXCEPT !.failures = table[i].failures + 1]
                               ELSE table[i]]
  BY <1>1 DEF Reserved
<1> HIDE DEF more
<1>3. ASSUME NEW i \in 1 .. n
      PROVE  /\ more[i] \in Entry /\ more[i].key = table[i].key /\ more[i].checks = table[i].checks
             /\ table[i].key = key => more[i].failures = table[i].failures + 1
             /\ table[i].key # key => more[i] = table[i]
  <2>1. CASE table[i].key = key
    <3>1. table[i].failures \in 1 .. MaxAttempts /\ table[i].failures < MaxAttempts
      BY <1>1, <2>1 DEF Exhausted, EntriesOf, Entry
    <3>2. table[i].failures + 1 \in 1 .. MaxAttempts
      BY <3>1
    <3>3. more[i] = [table[i] EXCEPT !.failures = table[i].failures + 1]
      BY <1>2, <2>1
    <3> QED
      BY <1>1, <2>1, <3>2, <3>3 DEF Entry
  <2>2. CASE table[i].key # key
    BY <1>1, <1>2, <2>2
  <2> QED
    BY <2>1, <2>2
<1>4. more \in Seq(Entry) /\ Len(more) = n /\ DOMAIN more = 1 .. n
  <2>1. more \in [1 .. n -> Entry]
    BY <1>2, <1>3
  <2> QED
    BY <1>1, <2>1, IsASeq, LenProperties
<1>5. OneEntryPerKey(more)
  BY <1>1, <1>3, <1>4 DEF Sound, OneEntryPerKey
<1>6. KeysIn(more) = KeysIn(table)
  BY <1>1, <1>3, <1>4 DEF KeysIn
<1>7. \A a \in Sources : Held(more, a) = Held(table, a)
  BY <1>4, <1>5, <1>6, HeldIsNames DEF Sound, NamesAt
<1>8. Sound(more, ReservedCounts(table, counts, key))
  BY <1>4, <1>5, <1>7 DEF Sound, ReservedCounts, n
<1>9. OneMore(more, table, key)
  BY <1>1, <1>3, <1>4 DEF OneMore, EntriesOf
<1> QED
  BY <1>8, <1>9 DEF more

LEMMA TailIsRemoval ==
  ASSUME NEW S, NEW table \in Seq(S), table # <<>>
  PROVE  /\ Tail(table) = RemoveAt(table, 1) /\ Head(table) = table[1] /\ 1 \in DOMAIN table
<1>1. Len(table) \in Nat \ {0} /\ 1 \in DOMAIN table /\ Head(table) = table[1]
  BY EmptySeq, LenProperties
<1>2. /\ Tail(table) \in Seq(S) /\ Len(Tail(table)) = Len(table) - 1
      /\ \A i \in 1 .. (Len(table) - 1) : Tail(table)[i] = table[i + 1]
  BY <1>1, HeadTailProperties
<1>3. \A i \in 1 .. (Len(table) - 1) : RemoveAt(table, 1)[i] = table[i + 1]
  <2>1. \A i \in 1 .. (Len(table) - 1) : (i < 1 => RemoveAt(table, 1)[i] = table[i])
                                       /\ (i >= 1 => RemoveAt(table, 1)[i] = table[i + 1])
    BY <1>1, RemovedAt
  <2> QED
    BY <1>1, <2>1
<1> QED
  BY <1>1, <1>2, <1>3, RemovedAt, SeqEqual

\* A new key: there is room in its address, and in the table once the oldest is gone.
LEMMA NewIsSound ==
  ASSUME NEW table, NEW counts, Sound(table, counts), NEW key \in KeysOfLogins,
         key \notin KeysIn(table), counts[key[1]] < MaxNames, Len(table) < MaxKeys,
         NEW entry \in Entry, entry.key = key
  PROVE  Sound(Append(table, entry), [counts EXCEPT ![key[1]] = @ + 1])
<1> DEFINE n == Len(table)
           more == Append(table, entry)
<1>1. n \in Nat /\ DOMAIN table = 1 .. n
  BY LenProperties DEF Sound
<1>2. /\ more \in Seq(Entry) /\ Len(more) = n + 1 /\ DOMAIN more = 1 .. (n + 1)
      /\ more[n + 1] = entry /\ \A i \in 1 .. n : more[i] = table[i]
  BY AppendProperties, LenProperties DEF Sound
<1> HIDE DEF more, n
<1>3. \A i \in 1 .. (n + 1) : i \in 1 .. n \/ i = n + 1
  BY <1>1
<1>4. \A i \in 1 .. n : table[i].key # key
  BY <1>1 DEF KeysIn
<1>5. OneEntryPerKey(more)
  BY <1>1, <1>2, <1>3, <1>4 DEF Sound, OneEntryPerKey
<1>6. KeysIn(more) = KeysIn(table) \union {key}
  <2>1. \A i \in DOMAIN more : more[i].key \in KeysIn(table) \union {key}
    BY <1>1, <1>2, <1>3 DEF KeysIn
  <2>2. \A i \in DOMAIN table : i \in DOMAIN more /\ more[i].key = table[i].key
    BY <1>1, <1>2
  <2>3. n + 1 \in DOMAIN more /\ more[n + 1].key = key
    BY <1>1, <1>2
  <2> QED
    BY <2>1, <2>2, <2>3 DEF KeysIn
<1>7. \A a \in Sources : /\ a = key[1] => Held(more, a) = Held(table, a) + 1
                         /\ a # key[1] => Held(more, a) = Held(table, a)
  BY <1>2, <1>5, <1>6, HeldWith, SMTT(20) DEF Sound
<1>8. /\ [counts EXCEPT ![key[1]] = @ + 1] \in [Sources -> 0 .. MaxNames]
      /\ \A a \in Sources : [counts EXCEPT ![key[1]] = @ + 1][a] = Held(more, a)
  <2>1. key[1] \in Sources /\ counts[key[1]] + 1 \in 0 .. MaxNames
    BY DEF Sound, KeysOfLogins
  <2> QED
    BY <1>7, <2>1 DEF Sound
<1>9. Len(more) <= MaxKeys
  BY <1>1, <1>2 DEF n
<1> QED
  BY <1>2, <1>5, <1>8, <1>9 DEF Sound, more

\* reserve.
LEMMA ReservedIsSound ==
  ASSUME NEW table, NEW counts, Sound(table, counts), NEW key \in KeysOfLogins,
         ~Refused(table, counts, key)
  PROVE  /\ Sound(Reserved(table, key), ReservedCounts(table, counts, key))
         /\ OneMore(Reserved(table, key), table, key)
<1>1. CASE EntriesOf(table, key) # {}
  BY <1>1, KnownIsSound DEF Refused
<1>2. CASE EntriesOf(table, key) = {}
  <2> DEFINE full == Len(table) >= MaxKeys
             base == IF full THEN Tail(table) ELSE table
             kept == IF full THEN [counts EXCEPT ![Head(table).key[1]] = @ - 1] ELSE counts
             entry == [key |-> key, failures |-> 1, checks |-> 0]
             more == Append(base, entry)
  <2>1. Len(table) \in Nat /\ Len(table) <= MaxKeys /\ MaxKeys \in Nat \ {0}
    BY LenProperties DEF Sound
  <2>2. /\ Sound(base, kept) /\ Len(base) < MaxKeys /\ Among(base, table)
        /\ KeysIn(base) \subseteq KeysIn(table)
        /\ \A a \in Sources : kept[a] <= counts[a]
    <3>1. CASE full
      <4>1. table \in Seq(Entry) /\ table # <<>>
        BY <3>1, <2>1, EmptySeq DEF Sound
      <4>2. /\ base = RemoveAt(table, 1) /\ 1 \in DOMAIN table
            /\ kept = [counts EXCEPT ![table[1].key[1]] = @ - 1]
        BY <3>1, <4>1, TailIsRemoval
      <4>3. /\ Sound(RemoveAt(table, 1), [counts EXCEPT ![table[1].key[1]] = @ - 1])
            /\ Len(RemoveAt(table, 1)) = Len(table) - 1 /\ Among(RemoveAt(table, 1), table)
            /\ KeysIn(RemoveAt(table, 1)) = KeysIn(table) \ {table[1].key}
        BY <4>2, OneOut, Zenon
      <4>4. \A a \in Sources : kept[a] <= counts[a]
        BY <4>2 DEF Sound
      <4> HIDE DEF base, kept
      <4>5. Sound(base, kept) /\ Among(base, table) /\ KeysIn(base) \subseteq KeysIn(table)
        BY <4>2, <4>3
      <4>6. Len(base) < MaxKeys
        BY <2>1, <4>2, <4>3
      <4> QED
        BY <4>4, <4>5, <4>6
    <3>2. CASE ~full
      BY <2>1, <3>2 DEF Among, Sound
    <3> QED
      BY <3>1, <3>2
  <2>3. key \notin KeysIn(table) /\ counts[key[1]] < MaxNames
    BY <1>2 DEF Refused, EntriesOf, KeysIn, Sound, KeysOfLogins
  <2>4. kept[key[1]] < MaxNames
    <3>1. /\ key[1] \in Sources /\ kept[key[1]] \in Nat /\ counts[key[1]] \in Nat
          /\ kept[key[1]] <= counts[key[1]]
      BY <2>2 DEF Sound, KeysOfLogins
    <3> QED
      BY <2>3, <3>1
  <2>5. entry \in Entry /\ entry.key = key /\ entry.checks = 0 /\ entry.failures = 1
    BY DEF Entry
  <2>6. /\ Reserved(table, key) = more
        /\ ReservedCounts(table, counts, key) = [kept EXCEPT ![key[1]] = @ + 1]
    BY <1>2 DEF Reserved, ReservedCounts
  <2> HIDE DEF base, kept, entry
  <2>7. Sound(more, [kept EXCEPT ![key[1]] = @ + 1])
    BY <2>2, <2>3, <2>4, <2>5, NewIsSound
  <2>8. OneMore(more, table, key)
    <3> DEFINE n == Len(base)
    <3>1. /\ n \in Nat /\ DOMAIN base = 1 .. n /\ DOMAIN more = 1 .. (n + 1)
          /\ more[n + 1] = entry /\ \A i \in 1 .. n : more[i] = base[i]
      BY <2>2, <2>5, AppendProperties, LenProperties DEF Sound
    <3> HIDE DEF more, n
    <3>2. n + 1 \in EntriesOf(more, key)
      BY <2>5, <3>1 DEF EntriesOf
    <3>3. ASSUME NEW i \in 1 .. n
          PROVE  more[i].key # key /\ \E j \in DOMAIN table : more[i] = table[j]
      BY <2>2, <2>3, <3>1 DEF Among, KeysIn
    <3>4. \A i \in 1 .. (n + 1) : i \in 1 .. n \/ i = n + 1
      BY <3>1
    <3> QED
      BY <1>2, <2>5, <3>1, <3>2, <3>3, <3>4 DEF OneMore
  <2> QED
    BY <2>6, <2>7, <2>8
<1> QED
  BY <1>1, <1>2

---------------------------------------------------------------------------
(* The requests.                                                           *)

LoginType ==
  [pc : {"idle", "find", "slot", "hash", "create", "audit", "session"},
   kind : {"none", "setup", "login"}, key : Sources \X (Names \union {"none"}),
   password : Nat, user : UserRow \union {NoUser}, counted : BOOLEAN]

SessionsTyped ==
  /\ login \in [Browsers -> LoginType]
  /\ \A b \in Browsers : IF login[b].pc = "idle" THEN login[b].user = NoUser
                                               ELSE login[b].key \in KeysOfLogins
  /\ sessions \in [Browsers -> [user : Nat, account : 0 .. MaxAccounts, live : BOOLEAN]]
  /\ overdue \in 0 .. Len(attempts) /\ crossed \subseteq Browsers
  /\ users \subseteq UserRow /\ accounts \in 0 .. MaxAccounts /\ logins \in 0 .. MaxLogins

\* The requests that reserved an attempt on a key and have not used it.
Reserving(requests, key) == {b \in Browsers : requests[b].counted /\ requests[b].key = key}

\* What was checked and what is still to be checked was counted.
Counted(table, requests) ==
  /\ \A i \in DOMAIN table :
       table[i].checks + Cardinality(Reserving(requests, table[i].key)) <= table[i].failures
  /\ \A b \in Browsers : requests[b].counted => EntriesOf(table, requests[b].key) # {}

\* There is one account, and whoever found or made it found or made that one.
OneAccount ==
  /\ \A u, v \in users : u = v
  /\ \A u \in users : u.id = 1
  /\ \A b \in Browsers : login[b].user # NoUser /\ b \notin crossed => login[b].user \in users
  /\ \A b \in Browsers : sessions[b].user # 0 =>
       \E u \in users : u.id = sessions[b].user /\ sessions[b].account \in {0, u.account}

SessionsInv ==
  SessionsTyped /\ Sound(attempts, perAddress) /\ Counted(attempts, login) /\ OneAccount

\* Forgetting a reservation changes nothing else of a request.
LEMMA ForgottenFields ==
  ASSUME NEW requests \in [Browsers -> LoginType], NEW table, NEW b \in Browsers
  PROVE  LET f == Forgetting(requests, table)
         IN  /\ f \in [Browsers -> LoginType]
             /\ f[b].pc = requests[b].pc /\ f[b].key = requests[b].key
             /\ f[b].user = requests[b].user
             /\ f[b].counted => requests[b].counted /\ EntriesOf(table, requests[b].key) # {}
<1> DEFINE kept(x) == requests[x].counted /\ EntriesOf(table, requests[x].key) # {}
<1>1. Forgetting(requests, table) = [x \in Browsers |-> [requests[x] EXCEPT !.counted = kept(x)]]
  BY DEF Forgetting
<1>2. \A x \in Browsers : kept(x) \in BOOLEAN
  OBVIOUS
<1> HIDE DEF kept
<1>3. \A x \in Browsers : [requests[x] EXCEPT !.counted = kept(x)] \in LoginType
  BY <1>2 DEF LoginType
<1>4. Forgetting(requests, table) \in [Browsers -> LoginType]
  BY <1>1, <1>3
<1>5. /\ Forgetting(requests, table)[b] = [requests[b] EXCEPT !.counted = kept(b)]
  BY <1>1
<1>6. requests[b] \in LoginType
  OBVIOUS
<1>7. Forgetting(requests, table)[b].counted = kept(b)
  BY <1>5, <1>6, Zenon DEF LoginType
<1>8. Forgetting(requests, table)[b].counted =>
        requests[b].counted /\ EntriesOf(table, requests[b].key) # {}
  BY <1>7, Zenon DEF kept
<1> QED
  BY <1>4, <1>5, <1>6, <1>8 DEF LoginType

Forgot(f, requests, table) ==
  /\ f \in [Browsers -> LoginType]
  /\ \A b \in Browsers :
       /\ f[b].pc = requests[b].pc /\ f[b].key = requests[b].key /\ f[b].user = requests[b].user
       /\ f[b].counted => requests[b].counted /\ EntriesOf(table, requests[b].key) # {}

LEMMA ForgottenAll ==
  ASSUME NEW requests \in [Browsers -> LoginType], NEW table
  PROVE  Forgot(Forgetting(requests, table), requests, table)
<1> DEFINE f == Forgetting(requests, table)
<1>1. f \in [Browsers -> LoginType]
  <2>1. CASE Browsers = {}
    BY <2>1 DEF Forgetting
  <2>2. CASE Browsers # {}
    BY <2>2, ForgottenFields
  <2> QED
    BY <2>1, <2>2
<1>2. ASSUME NEW b \in Browsers
      PROVE  /\ f[b].pc = requests[b].pc /\ f[b].key = requests[b].key /\ f[b].user = requests[b].user
             /\ f[b].counted => requests[b].counted /\ EntriesOf(table, requests[b].key) # {}
  BY ForgottenFields
<1> QED
  BY <1>1, <1>2 DEF Forgot

LEMMA ReservingIsFinite ==
  ASSUME NEW requests, NEW key
  PROVE  IsFiniteSet(Reserving(requests, key)) /\ Cardinality(Reserving(requests, key)) \in Nat
BY FS_Subset, FS_CardinalityType DEF Reserving

NoneAdded(after, requests, table) ==
  \A b \in Browsers : after[b].counted =>
    /\ requests[b].counted /\ after[b].key = requests[b].key
    /\ EntriesOf(table, after[b].key) # {}

\* Fewer entries and fewer reservations, none without its entry.
LEMMA StillCounted ==
  ASSUME NEW table \in Seq(Entry), NEW requests, Counted(table, requests),
         NEW fewer \in Seq(Entry), Among(fewer, table), NEW after,
         NoneAdded(after, requests, fewer)
  PROVE  Counted(fewer, after)
<1> SUFFICES ASSUME NEW i \in DOMAIN fewer
             PROVE  fewer[i].checks + Cardinality(Reserving(after, fewer[i].key))
                      <= fewer[i].failures
  BY DEF Counted, NoneAdded
<1>1. PICK j \in DOMAIN table : fewer[i] = table[j]
  BY DEF Among
<1> DEFINE key == table[j].key
<1>2. Reserving(after, key) \subseteq Reserving(requests, key)
  BY DEF Reserving, NoneAdded
<1>3. Cardinality(Reserving(after, key)) <= Cardinality(Reserving(requests, key))
  BY <1>2, ReservingIsFinite, FS_Subset
<1>4. table[j].checks + Cardinality(Reserving(requests, key)) <= table[j].failures
  BY DEF Counted
<1>5. table[j].checks \in Nat /\ table[j].failures \in Nat
  <2>1. table[j] \in Entry
    BY LenProperties
  <2> QED
    BY <2>1 DEF Entry
<1>6. /\ Cardinality(Reserving(after, key)) \in Nat
      /\ Cardinality(Reserving(requests, key)) \in Nat
  BY ReservingIsFinite
<1> QED
  BY <1>1, <1>3, <1>4, <1>5, <1>6

\* A step that leaves the table, the accounts and the sessions alone and changes one request.
OneRequest(b) ==
  /\ UNCHANGED <<users, sessions, attempts, perAddress, overdue, accounts>>
  /\ logins' \in 0 .. MaxLogins /\ crossed' \subseteq crossed
  /\ login' \in [Browsers -> LoginType]
  /\ \A d \in Browsers \ {b} : login'[d] = login[d] /\ (d \in crossed => d \in crossed')
  /\ IF login'[b].pc = "idle" THEN login'[b].user = NoUser ELSE login'[b].key \in KeysOfLogins
  /\ login'[b].counted => login[b].counted /\ login'[b].key = login[b].key
  /\ login'[b].user # NoUser /\ b \notin crossed' => login'[b].user \in users

LEMMA OneRequestKeeps ==
  ASSUME SessionsInv, NEW b \in Browsers, OneRequest(b)
  PROVE  SessionsInv'
<1>1. SessionsTyped'
  BY DEF OneRequest, SessionsInv, SessionsTyped
<1>2. Sound(attempts, perAddress)' /\ attempts \in Seq(Entry)
  BY DEF OneRequest, SessionsInv, Sound, Held
<1>3. Counted(attempts, login)'
  <2>1. NoneAdded(login', login, attempts)
    BY DEF OneRequest, SessionsInv, Counted, NoneAdded
  <2>2. Among(attempts, attempts) /\ Counted(attempts, login)
    BY DEF Among, SessionsInv
  <2>3. Counted(attempts, login')
    BY <1>2, <2>1, <2>2, StillCounted
  <2> QED
    BY <2>3 DEF OneRequest, Counted, EntriesOf
<1>4. OneAccount'
  BY DEF OneRequest, SessionsInv, OneAccount
<1> QED
  BY <1>1, <1>2, <1>3, <1>4 DEF SessionsInv

LEMMA NoLoginFields ==
  /\ NoLogin \in LoginType /\ NoLogin.pc = "idle" /\ NoLogin.user = NoUser /\ ~NoLogin.counted
  /\ NoLogin.key = <<Proxy, "none">>
BY DEF NoLogin, LoginType, Sources

LEMMA FinishesKeeps ==
  ASSUME SessionsInv, NEW b \in Browsers, Finishes(b), logins' \in 0 .. MaxLogins,
         UNCHANGED <<users, sessions, attempts, perAddress, overdue, accounts>>
  PROVE  SessionsInv'
<1>1. OneRequest(b)
  BY NoLoginFields DEF Finishes, OneRequest, SessionsInv, SessionsTyped
<1> QED
  BY <1>1, OneRequestKeeps

\* Two fields of a request change.
LEMMA RequestMoves ==
  ASSUME SessionsInv, NEW b \in Browsers, login[b].pc # "idle",
         NEW pc \in {"find", "slot", "hash", "create", "audit", "session"},
         NEW user \in users \union {NoUser, login[b].user},
         login' = [login EXCEPT ![b] = [login[b] EXCEPT !.pc = pc, !.user = user]],
         UNCHANGED <<users, sessions, attempts, perAddress, overdue, accounts, logins, crossed>>
  PROVE  SessionsInv'
<1> DEFINE r == [login[b] EXCEPT !.pc = pc, !.user = user]
<1>1. login[b] \in LoginType /\ user \in UserRow \union {NoUser}
  BY DEF SessionsInv, SessionsTyped, LoginType
<1>2. /\ r \in LoginType /\ r.pc = pc /\ r.user = user /\ r.key = login[b].key
      /\ r.counted = login[b].counted
  BY <1>1 DEF LoginType
<1> HIDE DEF r
<1>3. login' \in [Browsers -> LoginType] /\ login'[b] = r
      /\ \A d \in Browsers \ {b} : login'[d] = login[d]
  BY <1>2 DEF r, SessionsInv, SessionsTyped
<1>4. OneRequest(b)
  BY <1>1, <1>2, <1>3 DEF OneRequest, SessionsInv, SessionsTyped, OneAccount
<1> QED
  BY <1>4, OneRequestKeeps

LEMMA FindUserKeeps == ASSUME SessionsInv, NEW b \in Browsers, FindUser(b) PROVE SessionsInv'
<1> DEFINE found == {u \in users : u.name = login[b].key[2]}
           user == IF found = {} THEN NoUser ELSE CHOOSE u \in found : TRUE
<1>1. user \in users \union {NoUser, login[b].user}
  OBVIOUS
<1>2. login' = [login EXCEPT ![b].pc = "slot", ![b].user = user]
  BY DEF FindUser
<1> HIDE DEF user
<1>3. login' = [login EXCEPT ![b] = [login[b] EXCEPT !.pc = "slot", !.user = user]]
  BY <1>2 DEF SessionsInv, SessionsTyped, LoginType
<1> QED
  BY <1>1, <1>3, RequestMoves DEF FindUser

LEMMA ProceedsKeeps ==
  ASSUME SessionsInv, NEW b \in Browsers, login[b].pc # "idle",
         NEW pc \in {"find", "slot", "hash", "create", "audit", "session"}, Proceeds(b, pc),
         UNCHANGED <<users, sessions, attempts, perAddress, overdue, accounts, logins, crossed>>
  PROVE  SessionsInv'
<1>1. login' = [login EXCEPT ![b] = [login[b] EXCEPT !.pc = pc]]
  BY DEF Proceeds
<1>2. login[b] \in LoginType
  BY DEF SessionsInv, SessionsTyped
<1>3. [login[b] EXCEPT !.pc = pc] = [login[b] EXCEPT !.pc = pc, !.user = login[b].user]
  BY <1>2 DEF LoginType
<1> QED
  BY <1>1, <1>3, RequestMoves

LEMMA TakeSlotKeeps == ASSUME SessionsInv, NEW b \in Browsers, TakeSlot(b) PROVE SessionsInv'
<1>1. PICK pc \in {"create", "hash"} : Proceeds(b, pc)
  BY DEF TakeSlot
<1> QED
  BY <1>1, ProceedsKeeps DEF TakeSlot

LEMMA AuditKeeps == ASSUME SessionsInv, NEW b \in Browsers, Audit(b) PROVE SessionsInv'
BY ProceedsKeeps DEF Audit

LEMMA DropLoginKeeps ==
  ASSUME SessionsInv, NEW b \in Browsers, DropLogin(b)
  PROVE  SessionsInv'
<1>1. logins' \in 0 .. MaxLogins
  BY DEF DropLogin, SessionsInv, SessionsTyped
<1> QED
  BY <1>1, FinishesKeeps DEF DropLogin

---------------------------------------------------------------------------
(* The sessions and the accounts.                                          *)

SessionType == [user : Nat, account : 0 .. MaxAccounts, live : BOOLEAN]

\* The row of a browser is one that was earned, or none.
Earned(session) ==
  session.user # 0 => \E u \in users : u.id = session.user /\ session.account \in {0, u.account}

LEMMA NoSessionFields == NoSession \in SessionType /\ NoSession.user = 0
BY DEF NoSession, SessionType

LEMMA SessionsChange ==
  ASSUME SessionsInv, sessions' \in [Browsers -> SessionType],
         \A b \in Browsers : Earned(sessions'[b]),
         UNCHANGED <<users, attempts, perAddress, overdue, login, accounts, logins, crossed>>
  PROVE  SessionsInv'
<1>1. SessionsTyped' /\ OneAccount'
  BY DEF SessionsInv, SessionsTyped, OneAccount, Earned, SessionType
<1>2. Sound(attempts, perAddress)' /\ Counted(attempts, login)'
  BY DEF SessionsInv, Sound, Counted, Reserving, Held, EntriesOf
<1> QED
  BY <1>1, <1>2 DEF SessionsInv

LEMMA LogoutKeeps == ASSUME SessionsInv, NEW b \in Browsers, Logout(b) PROVE SessionsInv'
<1>1. sessions' = [sessions EXCEPT ![b] = NoSession]
  BY DEF Logout
<1>2. sessions' \in [Browsers -> SessionType]
  BY <1>1, NoSessionFields DEF SessionsInv, SessionsTyped, SessionType
<1>3. \A d \in Browsers : Earned(sessions'[d])
  BY <1>1, NoSessionFields DEF SessionsInv, SessionsTyped, OneAccount, Earned
<1> QED
  BY <1>2, <1>3, SessionsChange DEF Logout

LEMMA SessionExpiresKeeps ==
  ASSUME SessionsInv, NEW b \in Browsers, SessionExpires(b)
  PROVE  SessionsInv'
<1> DEFINE expired == [sessions[b] EXCEPT !.live = FALSE]
<1>1. sessions' = [sessions EXCEPT ![b] = expired] /\ sessions \in [Browsers -> SessionType]
  BY DEF SessionExpires, SessionsInv, SessionsTyped, SessionType
<1>2. expired \in SessionType /\ expired.user = sessions[b].user /\ expired.account = sessions[b].account
  BY <1>1 DEF SessionType
<1> HIDE DEF expired
<1>3. sessions' \in [Browsers -> SessionType]
  BY <1>1, <1>2
<1>4. \A d \in Browsers : Earned(sessions'[d])
  BY <1>1, <1>2 DEF SessionsInv, OneAccount, Earned
<1> QED
  BY <1>3, <1>4, SessionsChange DEF SessionExpires

LEMMA CreateSessionKeeps ==
  ASSUME SessionsInv, NEW b \in Browsers, CreateSession(b)
  PROVE  SessionsInv'
<1> DEFINE kept == [s \in Browsers |-> IF sessions[s].live THEN sessions[s] ELSE NoSession]
<1>1. kept \in [Browsers -> SessionType] /\ \A d \in Browsers : Earned(kept[d])
  BY NoSessionFields DEF SessionsInv, SessionsTyped, SessionType, OneAccount, Earned
<1>2. Issued(b) \in SessionType
  BY DEF Issued, SessionType, SessionsInv, SessionsTyped, LoginType, UserRow, NoUser
<1>3. (\E u \in users : u.id = login[b].user.id) => Earned(Issued(b))
  <2> SUFFICES ASSUME NEW u \in users, u.id = login[b].user.id PROVE Earned(Issued(b))
    OBVIOUS
  <2>1. u.id = 1 /\ login[b].user # NoUser
    BY DEF SessionsInv, OneAccount, NoUser
  <2>2. CASE b \in crossed
    BY <2>1, <2>2 DEF Earned, Issued
  <2>3. CASE b \notin crossed
    <3>1. login[b].user \in users
      BY <2>1, <2>3 DEF SessionsInv, OneAccount
    <3> QED
      BY <2>3, <3>1 DEF Earned, Issued
  <2> QED
    BY <2>2, <2>3
<1>4. sessions' \in {kept, [kept EXCEPT ![b] = Issued(b)]}
      /\ (sessions' = kept \/ \E u \in users : u.id = login[b].user.id)
  BY DEF CreateSession
<1> HIDE DEF kept
<1>5. sessions' \in [Browsers -> SessionType] /\ \A d \in Browsers : Earned(sessions'[d])
  BY <1>1, <1>2, <1>3, <1>4
<1>6. SessionsTyped'
  BY <1>5, NoLoginFields
     DEF SessionsInv, SessionsTyped, SessionType, CreateSession, Finishes
<1>7. OneAccount'
  BY <1>5, NoLoginFields
     DEF SessionsInv, SessionsTyped, OneAccount, Earned, CreateSession, Finishes
<1>8. Sound(attempts, perAddress)' /\ attempts \in Seq(Entry)
  BY DEF SessionsInv, Sound, Held, CreateSession
<1>9. Counted(attempts, login)'
  <2>1. NoneAdded(login', login, attempts)
    BY NoLoginFields DEF SessionsInv, SessionsTyped, Counted, NoneAdded, CreateSession, Finishes
  <2>2. Among(attempts, attempts) /\ Counted(attempts, login)
    BY DEF Among, SessionsInv
  <2>3. Counted(attempts, login')
    BY <1>8, <2>1, <2>2, StillCounted
  <2> QED
    BY <2>3 DEF CreateSession, Counted, EntriesOf
<1> QED
  BY <1>6, <1>7, <1>8, <1>9 DEF SessionsInv

LEMMA ResetAdminsKeeps == ASSUME SessionsInv, ResetAdmins PROVE SessionsInv'
<1>1. SessionsTyped'
  BY NoSessionFields DEF SessionsInv, SessionsTyped, SessionType, ResetAdmins
<1>2. \A b \in Browsers : login[b].user # NoUser => login[b].pc # "idle"
  BY DEF SessionsInv, SessionsTyped
<1>3. OneAccount'
  BY <1>2, NoSessionFields DEF SessionsInv, SessionsTyped, OneAccount, ResetAdmins
<1>4. Sound(attempts, perAddress)' /\ Counted(attempts, login)'
  BY DEF SessionsInv, Sound, Counted, Reserving, Held, EntriesOf, ResetAdmins
<1> QED
  BY <1>1, <1>3, <1>4 DEF SessionsInv

---------------------------------------------------------------------------
(* The steps that change the table.                                        *)

\* client_ip finds an address that is one.
LEMMA ClientsAreSources == Clients \subseteq Sources
<1> SUFFICES ASSUME NEW peer \in Sources, NEW forwarded \in Forwarded
             PROVE  ClientIp(peer, forwarded) \in Sources
  BY DEF Clients
<1> DEFINE hops == Reverse(forwarded)
           untrusted == {i \in DOMAIN hops : hops[i] # Proxy}
           first == CHOOSE i \in untrusted : \A j \in untrusted : i <= j
<1>1. Proxy \in Sources
  BY DEF Sources
<1>2. CASE peer # Proxy \/ hops = <<>> \/ untrusted = {}
  BY <1>1, <1>2 DEF ClientIp
<1>3. CASE hops # <<>> /\ untrusted # {}
  <2>1. PICK c \in Sources \union {Junk}, d \in Sources \union {Junk} : forwarded = <<c, d>>
    BY <1>3 DEF Forwarded, Reverse
  <2>2. DOMAIN hops = 1 .. 2 /\ \A i \in 1 .. 2 : hops[i] \in Sources \union {Junk}
    BY <2>1 DEF Reverse
  <2>3. \E i \in untrusted : \A j \in untrusted : i <= j
    <3>1. untrusted \subseteq {1, 2}
      BY <2>2
    <3> QED
      BY <1>3, <3>1
  <2>4. first \in untrusted
    BY <2>3
  <2>5. hops[first] \in Sources \union {Junk}
    BY <2>2, <2>4
  <2>6. ClientIp(peer, forwarded) \in {peer, Proxy} \/
          (ClientIp(peer, forwarded) = hops[first] /\ hops[first] # Junk)
    BY DEF ClientIp
  <2> QED
    BY <1>1, <2>5, <2>6
<1> QED
  BY <1>2, <1>3

LEMMA FewerEntries ==
  ASSUME SessionsInv, Sound(attempts, perAddress)', Among(attempts', attempts),
         NoneAdded(login', login, attempts')
  PROVE  Counted(attempts, login)'
<1>1. /\ attempts \in Seq(Entry) /\ attempts' \in Seq(Entry) /\ Counted(attempts, login)
  BY DEF SessionsInv, Sound
<1>2. Counted(attempts', login')
  BY <1>1, StillCounted
<1> QED
  BY <1>2 DEF Counted, EntriesOf

\* Reservations whose entry is gone are forgotten, and one request begins, ends or moves on.
Forgets(b) ==
  /\ \A d \in Browsers \ {b} : login'[d] = Forgetting(login, attempts')[d]
  /\ login'[b].counted => Forgetting(login, attempts')[b].counted /\ login'[b].key = login[b].key

LEMMA ForgettingAddsNone ==
  ASSUME SessionsInv, NEW b \in Browsers, Forgets(b)
  PROVE  NoneAdded(login', login, attempts')
<1> SUFFICES ASSUME NEW d \in Browsers, login'[d].counted
             PROVE  /\ login[d].counted /\ login'[d].key = login[d].key
                    /\ EntriesOf(attempts', login'[d].key) # {}
  BY DEF NoneAdded
<1>1. login \in [Browsers -> LoginType]
  BY DEF SessionsInv, SessionsTyped
<1>2. Forgetting(login, attempts')[d].counted /\ login'[d].key = login[d].key
  BY <1>1, ForgottenFields DEF Forgets
<1> QED
  BY <1>1, <1>2, ForgottenFields

LEMMA BeginSetupKeeps == ASSUME SessionsInv, NEW b \in Browsers, BeginSetup(b) PROVE SessionsInv'
<1>1. PICK address \in Clients, name \in Names :
        /\ attempts' = LivePruned /\ overdue' = 0
        /\ perAddress' = Recounted(perAddress, LivePruned)
        /\ login' = [Forgetting(login, LivePruned) EXCEPT ![b] =
             [NoLogin EXCEPT !.pc = "slot", !.kind = "setup", !.key = <<address, name>>]]
  BY DEF BeginSetup
<1> DEFINE r == [NoLogin EXCEPT !.pc = "slot", !.kind = "setup", !.key = <<address, name>>]
<1>2. <<address, name>> \in KeysOfLogins
  BY ClientsAreSources DEF KeysOfLogins
<1>3. r \in LoginType /\ r.pc = "slot" /\ r.user = NoUser /\ ~r.counted /\ r.key \in KeysOfLogins
  BY <1>2 DEF NoLogin, LoginType, KeysOfLogins
<1> HIDE DEF r
<1>4. login \in [Browsers -> LoginType]
  BY DEF SessionsInv, SessionsTyped
<1>5. /\ login' \in [Browsers -> LoginType] /\ login'[b] = r
      /\ \A d \in Browsers \ {b} : login'[d] = Forgetting(login, attempts')[d]
  BY <1>1, <1>3, <1>4, ForgottenFields DEF r
<1>6. Sound(attempts, perAddress)' /\ Among(attempts', attempts)
  <2>1. Sound(LivePruned, Recounted(perAddress, LivePruned)) /\ Among(LivePruned, attempts)
    BY PrunedIsSound DEF SessionsInv, SessionsTyped
  <2> QED
    BY <1>1, <2>1 DEF Sound, Held
<1>7. NoneAdded(login', login, attempts')
  BY <1>3, <1>5, ForgettingAddsNone DEF Forgets
<1>8. Counted(attempts, login)'
  BY <1>6, <1>7, FewerEntries
<1>9. \A d \in Browsers \ {b} : /\ login'[d].pc = login[d].pc /\ login'[d].key = login[d].key
                               /\ login'[d].user = login[d].user
  BY <1>4, <1>5, ForgottenFields
<1>10. overdue' \in 0 .. Len(attempts') /\ logins' \in 0 .. MaxLogins
  <2>1. Len(attempts') \in Nat
    BY <1>6, LenProperties DEF Sound
  <2> QED
    <3>1. overdue' = 0 /\ logins < MaxLogins /\ logins' = logins + 1
      BY DEF BeginSetup, Arrives
    <3>2. logins \in 0 .. MaxLogins
      BY DEF SessionsInv, SessionsTyped
    <3> QED
      BY <2>1, <3>1, <3>2
<1>11. SessionsTyped'
  BY <1>3, <1>5, <1>9, <1>10 DEF SessionsInv, SessionsTyped, BeginSetup
<1>12. OneAccount'
  BY <1>3, <1>5, <1>9 DEF SessionsInv, OneAccount, BeginSetup
<1> QED
  BY <1>6, <1>8, <1>11, <1>12 DEF SessionsInv

LEMMA BeginLoginKeeps == ASSUME SessionsInv, NEW b \in Browsers, BeginLogin(b) PROVE SessionsInv'
<1> DEFINE table == LivePruned
           counts == Recounted(perAddress, table)
           forgot == Forgetting(login, table)
           rec(key, password) == [NoLogin EXCEPT !.pc = "find", !.kind = "login", !.key = key,
                                                 !.password = password, !.counted = TRUE]
<1>1. PICK address \in Clients, name \in Names, password \in 0 .. accounts :
        /\ overdue' = 0
        /\ IF Refused(table, counts, <<address, name>>)
           THEN attempts' = table /\ perAddress' = counts /\ login' = forgot
           ELSE /\ attempts' = Reserved(table, <<address, name>>)
                /\ perAddress' = ReservedCounts(table, counts, <<address, name>>)
                /\ login' = [Forgetting(forgot, attempts') EXCEPT ![b] =
                              rec(<<address, name>>, password)]
  BY DEF BeginLogin
<1> DEFINE key == <<address, name>>
           r == rec(key, password)
<1>2. key \in KeysOfLogins
  BY ClientsAreSources DEF KeysOfLogins
<1>3. /\ r \in LoginType /\ r.pc = "find" /\ r.user = NoUser /\ r.counted /\ r.key = key
  <2>1. password \in Nat
    BY DEF SessionsInv, SessionsTyped
  <2> QED
    BY <1>2, <2>1 DEF NoLogin, LoginType, KeysOfLogins
<1> HIDE DEF r, key
<1>4. login \in [Browsers -> LoginType]
  BY DEF SessionsInv, SessionsTyped
<1>5. Sound(table, counts) /\ Among(table, attempts)
  BY PrunedIsSound DEF SessionsInv, SessionsTyped
<1>6. /\ forgot \in [Browsers -> LoginType]
      /\ \A d \in Browsers :
           /\ forgot[d].pc = login[d].pc /\ forgot[d].key = login[d].key
           /\ forgot[d].user = login[d].user
           /\ forgot[d].counted => login[d].counted /\ EntriesOf(table, login[d].key) # {}
  BY <1>4, ForgottenAll DEF Forgot
<1>7. table \in Seq(Entry) /\ attempts \in Seq(Entry) /\ Counted(attempts, login)
  BY <1>5 DEF Sound, SessionsInv
<1> HIDE DEF table, counts, forgot
<1>8. Counted(table, forgot)
  <2>1. NoneAdded(forgot, login, table)
    BY <1>6 DEF NoneAdded
  <2> QED
    BY <1>5, <1>7, <2>1, StillCounted
<1>9. /\ Sound(attempts, perAddress)' /\ Counted(attempts, login)'
      /\ login' \in [Browsers -> LoginType]
      /\ \A d \in Browsers : \/ /\ login'[d].pc = login[d].pc /\ login'[d].key = login[d].key
                                /\ login'[d].user = login[d].user
                             \/ d = b /\ login'[d] = r
  <2>1. CASE Refused(table, counts, key)
    BY <1>1, <1>5, <1>6, <1>8, <2>1 DEF Sound, Held, Counted, EntriesOf, key
  <2>2. CASE ~Refused(table, counts, key)
    <3> DEFINE more == Reserved(table, key)
               last == Forgetting(forgot, more)
    <3>1. /\ attempts' = more /\ perAddress' = ReservedCounts(table, counts, key)
          /\ login' = [last EXCEPT ![b] = r]
      BY <1>1, <2>2 DEF key, r
    <3>2. Sound(more, ReservedCounts(table, counts, key)) /\ OneMore(more, table, key)
      BY <1>2, <1>5, <2>2, ReservedIsSound
    <3>3. /\ last \in [Browsers -> LoginType]
          /\ \A d \in Browsers :
               /\ last[d].pc = forgot[d].pc /\ last[d].key = forgot[d].key
               /\ last[d].user = forgot[d].user
               /\ last[d].counted => forgot[d].counted /\ EntriesOf(more, forgot[d].key) # {}
      BY <1>6, ForgottenAll DEF Forgot
    <3> HIDE DEF more, last
    <3>4. /\ login' \in [Browsers -> LoginType] /\ login'[b] = r
          /\ \A d \in Browsers \ {b} : login'[d] = last[d]
      BY <1>3, <3>1, <3>3
    <3>5. \A k : k # key => Reserving(login', k) \subseteq Reserving(forgot, k)
      BY <1>3, <3>3, <3>4 DEF Reserving
    <3>6. Reserving(login', key) \subseteq Reserving(forgot, key) \union {b}
      BY <3>3, <3>4 DEF Reserving
    <3>7. ASSUME NEW i \in DOMAIN more
          PROVE  more[i].checks + Cardinality(Reserving(login', more[i].key)) <= more[i].failures
      <4> DEFINE before(k) == Cardinality(Reserving(forgot, k))
                 after(k) == Cardinality(Reserving(login', k))
      <4>1. \A k : before(k) \in Nat /\ after(k) \in Nat
        BY ReservingIsFinite
      <4>2. \A j \in DOMAIN table : table[j] \in Entry /\ table[j].checks \in Nat
              /\ table[j].failures \in Nat
              /\ table[j].checks + before(table[j].key) <= table[j].failures
        <5> SUFFICES ASSUME NEW j \in DOMAIN table
                     PROVE  /\ table[j] \in Entry /\ table[j].checks \in Nat
                            /\ table[j].failures \in Nat
                            /\ table[j].checks + before(table[j].key) <= table[j].failures
          OBVIOUS
        <5>1. table[j] \in Entry
          BY <1>7, LenProperties
        <5>2. table[j].checks + before(table[j].key) <= table[j].failures
          BY <1>8 DEF Counted
        <5> QED
          BY <5>1, <5>2 DEF Entry
      <4>3. after(key) <= before(key) + 1
        <5>1. IsFiniteSet(Reserving(forgot, key) \union {b})
              /\ Cardinality(Reserving(forgot, key) \union {b}) \in {before(key), before(key) + 1}
          BY ReservingIsFinite, FS_AddElement
        <5>2. after(key) <= Cardinality(Reserving(forgot, key) \union {b})
          BY <3>6, <5>1, FS_Subset
        <5> QED
          BY <4>1, <5>1, <5>2
      <4>4. \A k : k # key => after(k) <= before(k)
        BY <3>5, ReservingIsFinite, FS_Subset
      <4>5. CASE more[i].key # key
        <5>1. PICK j \in DOMAIN table : more[i] = table[j]
          BY <3>2, <4>5 DEF OneMore
        <5> HIDE DEF before, after
        <5>2. after(more[i].key) <= before(table[j].key)
          BY <4>4, <4>5, <5>1
        <5>3. more[i].checks + after(more[i].key) <= more[i].failures
          BY <4>1, <4>2, <5>1, <5>2
        <5> QED
          BY <5>3 DEF after
      <4>6. CASE /\ more[i].key = key
                 /\ \E j \in DOMAIN table : /\ table[j].key = key
                                            /\ more[i].checks = table[j].checks
                                            /\ more[i].failures = table[j].failures + 1
        <5>1. PICK j \in DOMAIN table : /\ table[j].key = key /\ more[i].checks = table[j].checks
                                        /\ more[i].failures = table[j].failures + 1
          BY <4>6
        <5> HIDE DEF before, after
        <5>2. more[i].checks + after(key) <= more[i].failures
          BY <4>1, <4>2, <4>3, <5>1
        <5> QED
          BY <4>6, <5>2 DEF after
      <4>7. CASE /\ more[i].key = key /\ EntriesOf(table, key) = {}
                 /\ more[i].checks = 0 /\ more[i].failures = 1
        <5>1. Reserving(forgot, key) = {}
          BY <4>7, <1>8 DEF Reserving, Counted
        <5>2. before(key) = 0
          BY <5>1, FS_EmptySet
        <5> QED
          BY <4>1, <4>3, <4>7, <5>2
      <4> QED
        BY <3>2, <4>5, <4>6, <4>7 DEF OneMore
    <3>8. \A d \in Browsers : login'[d].counted => EntriesOf(more, login'[d].key) # {}
      <4>1. EntriesOf(more, key) # {}
        BY <3>2 DEF OneMore
      <4> QED
        BY <1>3, <3>3, <3>4, <4>1
    <3>9. Counted(more, login')
      BY <3>7, <3>8 DEF Counted
    <3> QED
      <4>1. Sound(attempts, perAddress)' /\ Counted(attempts, login)'
        BY <3>1, <3>2, <3>9 DEF Sound, Held, Counted, EntriesOf
      <4> QED
        BY <1>6, <3>3, <3>4, <4>1
  <2> QED
    BY <2>1, <2>2
<1>10. overdue' \in 0 .. Len(attempts') /\ logins' \in 0 .. MaxLogins
  <2>1. Len(attempts') \in Nat
    BY <1>9, LenProperties DEF Sound
  <2> QED
    <3>1. overdue' = 0 /\ logins < MaxLogins /\ logins' = logins + 1
      BY DEF BeginLogin, Arrives
    <3>2. logins \in 0 .. MaxLogins
      BY DEF SessionsInv, SessionsTyped
    <3> QED
      BY <2>1, <3>1, <3>2
<1>11. SessionsTyped'
  BY <1>2, <1>3, <1>9, <1>10 DEF SessionsInv, SessionsTyped, BeginLogin
<1>12. OneAccount'
  BY <1>3, <1>9 DEF SessionsInv, OneAccount, BeginLogin
<1> QED
  BY <1>9, <1>11, <1>12 DEF SessionsInv

\* clear: the entry of a key goes, and the window moves up with the rest.
LEMMA ClearedIsSound ==
  ASSUME SessionsInv, NEW key, Clear(key)
  PROVE  /\ Sound(attempts, perAddress)' /\ Among(attempts', attempts)
         /\ overdue' \in 0 .. Len(attempts')
<1>1. /\ Sound(attempts, perAddress) /\ overdue \in 0 .. Len(attempts) /\ Len(attempts) \in Nat
      /\ DOMAIN attempts = 1 .. Len(attempts)
  BY LenProperties DEF SessionsInv, SessionsTyped, Sound
<1>2. Sound(attempts, perAddress)' /\ Among(attempts', attempts)
  <2>1. /\ Sound(Without(attempts, key), CountedOut(perAddress, attempts, key))
        /\ Among(Without(attempts, key), attempts)
    BY <1>1, RemovedIsSound
  <2> QED
    BY <2>1 DEF Clear, Sound, Held
<1> DEFINE early == {i \in 1 .. overdue : attempts[i].key # key}
<1>3. IsFiniteSet(1 .. overdue) /\ Cardinality(1 .. overdue) = overdue
  <2>1. overdue \in Nat /\ overdue \in Int /\ 1 \in Int
    BY <1>1
  <2>2. /\ IsFiniteSet(1 .. overdue)
        /\ Cardinality(1 .. overdue) = IF 1 > overdue THEN 0 ELSE overdue - 1 + 1
    BY <2>1, FS_Interval, Zenon
  <2> QED
    BY <2>1, <2>2
<1>4. early \subseteq 1 .. overdue /\ IsFiniteSet(early)
  BY <1>3, FS_Subset
<1>5. Cardinality(early) \in Nat /\ Cardinality(early) <= overdue
  BY <1>3, <1>4, FS_Subset, FS_CardinalityType
<1>6. overdue' = Cardinality(early)
  BY DEF Clear
<1> HIDE DEF early
<1>7. CASE EntriesOf(attempts, key) = {}
  <2>1. attempts' = attempts
    BY <1>7 DEF Clear, Without
  <2>2. overdue' \in Nat /\ overdue' <= overdue
    BY <1>5, <1>6
  <2> QED
    BY <1>1, <1>2, <2>1, <2>2
<1>8. CASE EntriesOf(attempts, key) # {}
  <2> DEFINE i == CHOOSE i \in EntriesOf(attempts, key) : TRUE
  <2>1. i \in 1 .. Len(attempts) /\ attempts[i].key = key
    BY <1>1, <1>8 DEF EntriesOf
  <2>2. attempts' = RemoveAt(attempts, i)
    BY <1>8 DEF Clear, Without
  <2> HIDE DEF i
  <2>3. Len(attempts') = Len(attempts) - 1
    BY <1>1, <2>1, <2>2, RemovedAt DEF Sound
  <2>4. CASE i <= overdue
    <3>1. i \in 1 .. overdue /\ early \subseteq (1 .. overdue) \ {i}
      BY <1>1, <2>1, <2>4 DEF early
    <3>2. /\ IsFiniteSet((1 .. overdue) \ {i})
          /\ Cardinality((1 .. overdue) \ {i}) = overdue - 1
      <4>1. /\ IsFiniteSet(1 .. overdue) /\ Cardinality(1 .. overdue) = overdue
            /\ i \in 1 .. overdue
        BY <1>3, <3>1
      <4>2. /\ IsFiniteSet((1 .. overdue) \ {i})
            /\ Cardinality((1 .. overdue) \ {i}) =
                 IF i \in 1 .. overdue THEN Cardinality(1 .. overdue) - 1
                                       ELSE Cardinality(1 .. overdue)
        BY <4>1, FS_RemoveElement, Zenon
      <4> QED
        BY <4>1, <4>2
    <3>3. Cardinality(early) <= Cardinality((1 .. overdue) \ {i})
      BY <3>1, <3>2, FS_Subset
    <3>4. overdue' \in Nat /\ overdue' <= overdue - 1
      BY <1>5, <1>6, <3>2, <3>3
    <3> QED
      BY <1>1, <1>2, <2>3, <3>4
  <2>5. CASE i > overdue
    <3>1. overdue' \in Nat /\ overdue' <= overdue
      BY <1>5, <1>6
    <3> QED
      BY <1>1, <1>2, <2>1, <2>3, <2>5, <3>1
  <2> QED
    BY <1>1, <2>1, <2>4, <2>5
<1> QED
  BY <1>2, <1>7, <1>8

\* A request moves on after its key was cleared, with the user it found or made.
ClearsFor(b, user) ==
  /\ login[b].pc # "idle" /\ Clear(login[b].key)
  /\ login' = [Forgetting(login, attempts') EXCEPT ![b].pc = "audit", ![b].user = user]
  /\ crossed' \subseteq crossed /\ crossed \subseteq crossed' \union {b}
  /\ user \in UserRow \union {NoUser} /\ (user # NoUser /\ b \notin crossed' => user \in users')
  /\ UNCHANGED <<sessions, logins>> /\ users' \subseteq UserRow /\ accounts' \in 0 .. MaxAccounts
  /\ \/ users' = users
     \/ users = {} /\ (\A u, v \in users' : u = v) /\ \A u \in users' : u.id = 1

LEMMA ClearKeeps ==
  ASSUME SessionsInv, NEW b \in Browsers, NEW user, ClearsFor(b, user)
  PROVE  SessionsInv'
<1> USE DEF ClearsFor
<1>1. /\ Sound(attempts, perAddress)' /\ Among(attempts', attempts)
      /\ overdue' \in 0 .. Len(attempts')
  BY ClearedIsSound
<1> DEFINE f == Forgetting(login, attempts')
           r == [f[b] EXCEPT !.pc = "audit", !.user = user]
<1>2. Forgot(f, login, attempts')
  BY ForgottenAll DEF SessionsInv, SessionsTyped
<1> HIDE DEF f
<1>3. login' = [f EXCEPT ![b] = r]
  <2>1. login' = [f EXCEPT ![b].pc = "audit", ![b].user = user]
    BY DEF f
  <2> QED
    BY <1>2, <2>1 DEF Forgot, LoginType
<1>4. /\ r \in LoginType /\ r.pc = "audit" /\ r.user = user /\ r.key = login[b].key
      /\ r.counted = f[b].counted
  <2>1. f[b] \in LoginType /\ f[b].key = login[b].key
    BY <1>2 DEF Forgot
  <2> QED
    BY <2>1 DEF LoginType
<1> HIDE DEF r
<1>5. /\ login' \in [Browsers -> LoginType] /\ login'[b] = r
      /\ \A d \in Browsers \ {b} : login'[d] = f[d]
  BY <1>2, <1>3, <1>4 DEF Forgot
<1>6. NoneAdded(login', login, attempts')
  BY <1>4, <1>5, ForgettingAddsNone DEF Forgets, f
<1>7. Counted(attempts, login)'
  BY <1>1, <1>6, FewerEntries
<1>8. SessionsTyped'
  <2>1. \A d \in Browsers : IF login'[d].pc = "idle" THEN login'[d].user = NoUser
                                                   ELSE login'[d].key \in KeysOfLogins
    <3>1. \A d \in Browsers : IF login[d].pc = "idle" THEN login[d].user = NoUser
                                                   ELSE login[d].key \in KeysOfLogins
      BY DEF SessionsInv, SessionsTyped
    <3>2. \A d \in Browsers \ {b} : /\ login'[d].pc = login[d].pc /\ login'[d].key = login[d].key
                                   /\ login'[d].user = login[d].user
      BY <1>2, <1>5 DEF Forgot
    <3>3. login'[b].pc = "audit" /\ login'[b].key \in KeysOfLogins
      BY <1>4, <1>5, <3>1
    <3> QED
      BY <3>1, <3>2, <3>3
  <2>2. crossed' \subseteq Browsers /\ logins' \in 0 .. MaxLogins
        /\ sessions' \in [Browsers -> [user : Nat, account : 0 .. MaxAccounts, live : BOOLEAN]]
    BY DEF SessionsInv, SessionsTyped
  <2> QED
    BY <1>1, <1>5, <2>1, <2>2 DEF SessionsTyped
<1>9. OneAccount'
  BY <1>2, <1>4, <1>5 DEF SessionsInv, OneAccount, Forgot
<1> QED
  BY <1>1, <1>7, <1>8, <1>9 DEF SessionsInv

LEMMA CreateFirstUserKeeps ==
  ASSUME SessionsInv, NEW b \in Browsers, CreateFirstUser(b)
  PROVE  SessionsInv'
<1>1. CASE users = {}
  <2> DEFINE user == [id |-> 1, name |-> login[b].key[2], account |-> accounts + 1]
  <2>1. accounts + 1 \in 1 .. MaxAccounts /\ login[b].key[2] \in Names
    <3>1. accounts < MaxAccounts /\ login[b].pc = "create"
      BY DEF CreateFirstUser
    <3>2. login[b].key \in KeysOfLogins /\ accounts \in 0 .. MaxAccounts
      BY <3>1 DEF SessionsInv, SessionsTyped
    <3> QED
      BY <3>1, <3>2 DEF KeysOfLogins
  <2>2. user \in UserRow /\ user.id = 1
    BY <2>1 DEF UserRow
  <2>3. /\ users' = {user} /\ accounts' = accounts + 1 /\ Clear(login[b].key)
        /\ login' = [Forgetting(login, attempts') EXCEPT ![b].pc = "audit", ![b].user = user]
        /\ crossed' = crossed \ {b} /\ UNCHANGED <<sessions, logins>> /\ login[b].pc # "idle"
    BY <1>1 DEF CreateFirstUser
  <2> HIDE DEF user
  <2>4. /\ users' \subseteq UserRow /\ \A u, v \in users' : u = v
        /\ \A u \in users' : u.id = 1
    BY <2>2, <2>3
  <2>5. ClearsFor(b, user)
    BY <1>1, <2>1, <2>2, <2>3, <2>4 DEF ClearsFor
  <2> QED
    BY <2>5, ClearKeeps
<1>2. CASE users # {}
  <2>1. logins' \in 0 .. MaxLogins
    BY DEF CreateFirstUser, SessionsInv, SessionsTyped
  <2> QED
    BY <1>2, <2>1, FinishesKeeps DEF CreateFirstUser
<1> QED
  BY <1>1, <1>2

\* A wrong password: the check is noted at its entry and the request is over.
LEMMA WrongPasswordKeeps ==
  ASSUME SessionsInv, NEW b \in Browsers, Finishes(b),
         attempts' = [i \in DOMAIN attempts |->
                        IF login[b].counted /\ attempts[i].key = login[b].key
                        THEN [attempts[i] EXCEPT !.checks = @ + 1] ELSE attempts[i]],
         UNCHANGED <<users, sessions, perAddress, overdue, accounts, logins>>
  PROVE  SessionsInv'
<1> DEFINE n == Len(attempts)
           more == attempts'
           noted(i) == login[b].counted /\ attempts[i].key = login[b].key
<1>1. n \in Nat /\ DOMAIN attempts = 1 .. n /\ \A i \in 1 .. n : attempts[i] \in Entry
  BY LenProperties DEF SessionsInv, Sound
<1>2. more = [i \in 1 .. n |-> IF noted(i)
                               THEN [attempts[i] EXCEPT !.checks = attempts[i].checks + 1]
                               ELSE attempts[i]]
  BY <1>1
<1> HIDE DEF more, n
<1>3. ASSUME NEW i \in 1 .. n
      PROVE  /\ more[i] \in Entry /\ more[i].key = attempts[i].key
             /\ more[i].failures = attempts[i].failures
             /\ noted(i) => more[i].checks = attempts[i].checks + 1
             /\ ~noted(i) => more[i].checks = attempts[i].checks
  <2>1. CASE noted(i)
    <3>1. attempts[i].checks + 1 \in Nat
      BY <1>1 DEF Entry
    <3>2. more[i] = [attempts[i] EXCEPT !.checks = attempts[i].checks + 1]
      BY <1>2, <2>1
    <3> QED
      BY <1>1, <2>1, <3>1, <3>2 DEF Entry
  <2>2. CASE ~noted(i)
    BY <1>1, <1>2, <2>2
  <2> QED
    BY <2>1, <2>2
<1>4. more \in Seq(Entry) /\ Len(more) = n /\ DOMAIN more = 1 .. n
  <2>1. more \in [1 .. n -> Entry]
    BY <1>2, <1>3
  <2> QED
    BY <1>1, <2>1, IsASeq, LenProperties
<1>5. OneEntryPerKey(more) /\ OneEntryPerKey(attempts) /\ attempts \in Seq(Entry)
  BY <1>1, <1>3, <1>4 DEF SessionsInv, Sound, OneEntryPerKey
<1>6. KeysIn(more) = KeysIn(attempts)
  BY <1>1, <1>3, <1>4 DEF KeysIn
<1>7. \A a \in Sources : Held(more, a) = Held(attempts, a)
  BY <1>4, <1>5, <1>6, HeldIsNames DEF NamesAt
<1>8. Sound(more, perAddress)
  BY <1>4, <1>5, <1>7 DEF SessionsInv, Sound, n
<1>9. /\ login' \in [Browsers -> LoginType] /\ login'[b] = NoLogin
      /\ \A d \in Browsers \ {b} : login'[d] = login[d]
  BY NoLoginFields DEF Finishes, SessionsInv, SessionsTyped
<1>10. ASSUME NEW i \in 1 .. n
       PROVE  more[i].checks + Cardinality(Reserving(login', more[i].key)) <= more[i].failures
  <2> DEFINE before == Cardinality(Reserving(login, attempts[i].key))
             after == Cardinality(Reserving(login', attempts[i].key))
  <2>1. before \in Nat /\ after \in Nat
    BY ReservingIsFinite
  <2>2. attempts[i].checks + before <= attempts[i].failures
    BY <1>1 DEF SessionsInv, Counted
  <2>3. attempts[i].checks \in Nat /\ attempts[i].failures \in Nat
    BY <1>1 DEF Entry
  <2>4. CASE noted(i)
    <3>1. /\ Reserving(login', attempts[i].key) \subseteq Reserving(login, attempts[i].key) \ {b}
          /\ b \in Reserving(login, attempts[i].key)
      BY <1>9, <2>4, NoLoginFields DEF Reserving
    <3>2. /\ IsFiniteSet(Reserving(login, attempts[i].key) \ {b})
          /\ Cardinality(Reserving(login, attempts[i].key) \ {b}) = before - 1
      BY <3>1, ReservingIsFinite, FS_RemoveElement
    <3>3. after <= before - 1
      BY <3>1, <3>2, FS_Subset
    <3> HIDE DEF before, after
    <3>4. more[i].checks + after <= more[i].failures
      BY <1>3, <2>1, <2>2, <2>3, <2>4, <3>3
    <3> QED
      BY <1>3, <3>4 DEF after
  <2>5. CASE ~noted(i)
    <3>1. Reserving(login', attempts[i].key) \subseteq Reserving(login, attempts[i].key)
      BY <1>9, NoLoginFields DEF Reserving
    <3>2. after <= before
      BY <3>1, ReservingIsFinite, FS_Subset
    <3> HIDE DEF before, after
    <3>3. more[i].checks + after <= more[i].failures
      BY <1>3, <2>1, <2>2, <2>3, <2>5, <3>2
    <3> QED
      BY <1>3, <3>3 DEF after
  <2> QED
    BY <2>4, <2>5
<1>11. \A d \in Browsers : login'[d].counted => EntriesOf(more, login'[d].key) # {}
  BY <1>1, <1>3, <1>4, <1>9, NoLoginFields DEF SessionsInv, Counted, EntriesOf
<1>12. Counted(attempts, login)' /\ Sound(attempts, perAddress)'
  BY <1>4, <1>8, <1>10, <1>11 DEF Counted, EntriesOf, Sound, Held, more
<1>13. SessionsTyped' /\ OneAccount'
  BY <1>4, <1>9, NoLoginFields DEF SessionsInv, SessionsTyped, OneAccount, Finishes, more, n
<1> QED
  BY <1>12, <1>13 DEF SessionsInv

LEMMA VerifyPasswordKeeps ==
  ASSUME SessionsInv, NEW b \in Browsers, VerifyPassword(b)
  PROVE  SessionsInv'
<1>1. CASE login[b].user # NoUser /\ login[b].password = login[b].user.account
  <2>1. /\ login[b] \in LoginType /\ Clear(login[b].key) /\ crossed' = crossed
        /\ login' = [Forgetting(login, attempts') EXCEPT ![b].pc = "audit"]
        /\ UNCHANGED <<users, sessions, accounts, logins>> /\ login[b].pc # "idle"
    BY <1>1 DEF VerifyPassword, SessionsInv, SessionsTyped
  <2> DEFINE f == Forgetting(login, attempts')
  <2>2. f \in [Browsers -> LoginType] /\ f[b].user = login[b].user
    BY ForgottenAll DEF SessionsInv, SessionsTyped, Forgot
  <2>3. login' = [f EXCEPT ![b].pc = "audit", ![b].user = login[b].user]
    <3>1. login' = [f EXCEPT ![b].pc = "audit"]
      BY <2>1
    <3> HIDE DEF f
    <3> QED
      BY <2>2, <3>1 DEF LoginType
  <2>4. ClearsFor(b, login[b].user)
    BY <2>1, <2>3 DEF ClearsFor, SessionsInv, SessionsTyped, OneAccount, LoginType
  <2> QED
    BY <2>4, ClearKeeps
<1>2. CASE ~(login[b].user # NoUser /\ login[b].password = login[b].user.account)
  BY <1>2, WrongPasswordKeeps DEF VerifyPassword
<1> QED
  BY <1>1, <1>2

LEMMA WindowEndsKeeps == ASSUME SessionsInv, WindowEnds PROVE SessionsInv'
<1>1. overdue' \in 0 .. Len(attempts)
  <2>1. Len(attempts) \in Nat
    BY LenProperties DEF SessionsInv, Sound
  <2> QED
    BY <2>1 DEF WindowEnds, SessionsInv, SessionsTyped
<1>2. SessionsTyped' /\ OneAccount'
  BY <1>1 DEF WindowEnds, SessionsInv, SessionsTyped, OneAccount
<1>3. Sound(attempts, perAddress)' /\ Counted(attempts, login)'
  BY DEF WindowEnds, SessionsInv, Sound, Counted, Reserving, Held, EntriesOf
<1> QED
  BY <1>2, <1>3 DEF SessionsInv

\* No entry, no reservation.
LEMMA EmptyIsSound ==
  ASSUME NEW counts, counts = [a \in Sources |-> 0], NEW requests,
         requests = [b \in Browsers |-> NoLogin]
  PROVE  Sound(<<>>, counts) /\ Counted(<<>>, requests)
<1>1. <<>> \in Seq(Entry) /\ DOMAIN <<>> = {} /\ Len(<<>>) = 0
  OBVIOUS
<1>2. \A a \in Sources : Held(<<>>, a) = 0
  BY <1>1, FS_EmptySet DEF Held
<1> QED
  BY <1>1, <1>2, NoLoginFields DEF Sound, OneEntryPerKey, Counted

LEMMA RestartSessionsKeeps == ASSUME SessionsInv, RestartSessions PROVE SessionsInv'
<1>1. /\ attempts' = <<>> /\ overdue' = 0 /\ login' = [b \in Browsers |-> NoLogin]
      /\ perAddress' = [a \in Sources |-> 0] /\ Len(<<>>) = 0
  BY DEF RestartSessions
<1>2. SessionsTyped' /\ OneAccount'
  BY <1>1, NoLoginFields DEF RestartSessions, SessionsInv, SessionsTyped, OneAccount
<1>3. Sound(<<>>, perAddress') /\ Counted(<<>>, login')
  BY <1>1, EmptyIsSound
<1>4. Sound(attempts, perAddress)' /\ Counted(attempts, login)'
  BY <1>1, <1>3 DEF Sound, Held, Counted, EntriesOf
<1> QED
  BY <1>2, <1>4 DEF SessionsInv

LEMMA SessionsInitially == ASSUME SessionsInit PROVE SessionsInv
<1>1. SessionsTyped /\ OneAccount
  <2>1. Len(<<>>) = 0
    OBVIOUS
  <2>2. NoSession \in SessionType /\ NoSession.user = 0
    BY NoSessionFields
  <2> QED
    BY <2>1, <2>2, NoLoginFields
    DEF SessionsInit, SessionsTyped, OneAccount, SessionType
<1>2. Sound(attempts, perAddress) /\ Counted(attempts, login)
  BY EmptyIsSound DEF SessionsInit
<1> QED
  BY <1>1, <1>2 DEF SessionsInv

LEMMA SessionsStutters == ASSUME SessionsInv, UNCHANGED sessionVars PROVE SessionsInv'
<1>1. SessionsTyped' /\ OneAccount'
  BY DEF sessionVars, SessionsInv, SessionsTyped, OneAccount
<1>2. Sound(attempts, perAddress)' /\ Counted(attempts, login)'
  BY DEF sessionVars, SessionsInv, Sound, Held, Counted, EntriesOf, Reserving
<1> QED
  BY <1>1, <1>2 DEF SessionsInv

LEMMA SessionsSteps == ASSUME SessionsInv, [SessionsNext]_sessionVars PROVE SessionsInv'
<1>1. ASSUME NEW b \in Browsers,
             BeginSetup(b) \/ BeginLogin(b) \/ FindUser(b) \/ TakeSlot(b) \/ VerifyPassword(b)
      PROVE  SessionsInv'
  BY <1>1, BeginSetupKeeps, BeginLoginKeeps, FindUserKeeps, TakeSlotKeeps, VerifyPasswordKeeps
<1>2. ASSUME NEW b \in Browsers,
             CreateFirstUser(b) \/ Audit(b) \/ CreateSession(b) \/ DropLogin(b) \/ Logout(b)
               \/ SessionExpires(b)
      PROVE  SessionsInv'
  BY <1>2, CreateFirstUserKeeps, AuditKeeps, CreateSessionKeeps, DropLoginKeeps, LogoutKeeps,
     SessionExpiresKeeps
<1>3. CASE WindowEnds \/ ResetAdmins \/ RestartSessions
  BY <1>3, WindowEndsKeeps, ResetAdminsKeeps, RestartSessionsKeeps
<1>4. CASE UNCHANGED sessionVars
  BY <1>4, SessionsStutters
<1> QED
  BY <1>1, <1>2, <1>3, <1>4 DEF SessionsNext

\* An account that is the only one is at most one.
LEMMA OneIsAtMostOne == ASSUME OneAccount PROVE Cardinality(users) <= 1
<1>1. CASE users = {}
  BY <1>1, FS_EmptySet
<1>2. CASE users # {}
  <2>1. PICK u \in users : TRUE
    BY <1>2
  <2>2. users = {u}
    BY <2>1 DEF OneAccount
  <2> QED
    BY <2>2, FS_Singleton
<1> QED
  BY <1>1, <1>2

LEMMA AttemptsAreBounded == ASSUME SessionsInv PROVE AttemptsStayBounded
<1>1. /\ attempts \in Seq(Entry) /\ Len(attempts) <= MaxKeys
      /\ perAddress \in [Sources -> 0 .. MaxNames]
      /\ \A a \in Sources : perAddress[a] = Held(attempts, a)
  BY DEF SessionsInv, Sound
<1>2. \A i \in DOMAIN attempts : attempts[i] \in Entry
  BY <1>1, LenProperties
<1>3. SessionsTypeOK
  <2>1. /\ users \subseteq UserRow
        /\ \A b \in Browsers :
             /\ sessions[b].live \in BOOLEAN /\ sessions[b].account \in 0 .. MaxAccounts
             /\ login[b].user \in UserRow \union {NoUser}
             /\ login[b].pc \in {"idle", "find", "slot", "hash", "create", "audit", "session"}
    BY DEF SessionsInv, SessionsTyped, LoginType
  <2>2. overdue \in 0 .. Len(attempts) /\ crossed \subseteq Browsers
        /\ accounts \in 0 .. MaxAccounts /\ logins \in 0 .. MaxLogins
    BY DEF SessionsInv, SessionsTyped
  <2>3. \A i \in DOMAIN attempts : attempts[i].key \in KeysOfLogins
    BY <1>2 DEF Entry
  <2> QED
    BY <1>1, <2>1, <2>2, <2>3 DEF SessionsTypeOK
<1>4. ASSUME NEW i \in DOMAIN attempts
      PROVE  attempts[i].checks
               + Cardinality({b \in Browsers : login[b].counted /\ login[b].key = attempts[i].key})
             <= MaxAttempts
  <2> DEFINE waiting == Cardinality(Reserving(login, attempts[i].key))
  <2>1. attempts[i].checks + waiting <= attempts[i].failures
    BY DEF SessionsInv, Counted
  <2>2. attempts[i].checks \in Nat /\ attempts[i].failures \in 1 .. MaxAttempts
    BY <1>2 DEF Entry
  <2>3. waiting \in Nat
    BY ReservingIsFinite
  <2> HIDE DEF waiting
  <2>4. attempts[i].checks + waiting <= MaxAttempts
    BY <2>1, <2>2, <2>3
  <2> QED
    BY <2>4 DEF waiting, Reserving
<1> QED
  BY <1>1, <1>3, <1>4 DEF AttemptsStayBounded

LEMMA AccountsAreEarned == ASSUME SessionsInv PROVE SessionsAreEarned
BY OneIsAtMostOne DEF SessionsInv, OneAccount, SessionsAreEarned

---------------------------------------------------------------------------
\* The table, the counts beside it, the requests with their reservations, the one account
\* and the sessions stay in step through every prune, eviction, success, reset and restart.
THEOREM SessionsInvariant == SessionsSpec => []SessionsInv
<1>1. SessionsInit => SessionsInv
  BY SessionsInitially
<1>2. SessionsInv /\ [SessionsNext]_sessionVars => SessionsInv'
  BY SessionsSteps
<1> QED
  BY <1>1, <1>2, PTL DEF SessionsSpec

\* However many logins arrive together and wait for a hashing slot, the passwords checked
\* and still to be checked for one address and name stay within MAX_ATTEMPTS, and the counts
\* of names per address are those of the table (LoginLimiter, auth.rs).
THEOREM AttemptsAlwaysBounded == SessionsSpec => []AttemptsStayBounded
<1>1. SessionsInv => AttemptsStayBounded
  BY AttemptsAreBounded
<1> QED
  BY <1>1, SessionsInvariant, PTL

\* Setups at once and resets at any step leave at most one account, and a session belongs to
\* the account whose password was checked or that was just set up (app.rs setup, login).
THEOREM SessionsAlwaysEarned == SessionsSpec => []SessionsAreEarned
<1>1. SessionsInv => SessionsAreEarned
  BY AccountsAreEarned
<1> QED
  BY <1>1, SessionsInvariant, PTL
=============================================================================
