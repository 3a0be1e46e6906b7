-------------------------- MODULE MCQueryLogFiles --------------------------
(***************************************************************************)
(* The query log in one run: the hand-over from KixDNS, the segment files, *)
(* which are a sequence of rows in the former, and the connections its     *)
(* pages come over, a request and a reply there.  A behaviour is one of    *)
(* these parts.                                                            *)
(***************************************************************************)
EXTENDS QueryLogHandoff, LogSegments, ControlPool

VARIABLE part

allVars == <<part, vars, logVars, poolVars>>

AllInit ==
  /\ part \in {"handover", "files", "pool"} /\ Init /\ LogInit /\ PoolInit

Handed(action) == part = "handover" /\ action /\ UNCHANGED <<part, logVars, poolVars>>
Filed(action) == part = "files" /\ action /\ UNCHANGED <<part, vars, poolVars>>
Pool(action) == part = "pool" /\ action /\ UNCHANGED <<part, vars, logVars>>

\* QueryLogHandoff's actions, without those that need an oversized record or a request
\* KixDNS does not record: here there are neither (querylog_oversized has both).
HandoverPart ==
  \/ Handed(BeginRound) \/ Handed(AskAhead) \/ Handed(TakeOverlap) \/ Handed(TakeRestarted)
  \/ Handed(TakeGone) \/ Handed(TakePage) \/ Handed(EndParallel)
  \/ Handed(AskNext) \/ Handed(WalkRestarted) \/ Handed(WalkPage) \/ Handed(EndWalk)
  \/ Handed(TakeFailure) \/ Handed(AppendRows) \/ Handed(Advance)
  \/ Handed(SaveState) \/ Handed(PanelStarts)
  \/ Handed(KernelRecord) \/ Handed(KernelRestart) \/ Handed(KernelForget)
  \/ Handed(Answer) \/ Handed(AnswerStray)
  \/ Handed(RequestFails) \/ Handed(AppendFails) \/ Handed(DropRows) \/ Handed(PanelEnds)

FilesPart ==
  \/ Filed(AppendRecords) \/ Filed(AppendAbandons)
  \/ Filed(BeginTidy) \/ Filed(ReadPlain) \/ Filed(RenameCompressed)
  \/ Filed(NoteCompressed) \/ Filed(UnlinkPlain) \/ Filed(Enforce)
  \/ Filed(RemoveDropped) \/ Filed(SyncClosed) \/ Filed(EndTidy)
  \/ Filed(ClearLog) \/ Filed(RemoveCleared)
  \/ Filed(BeginWalk) \/ Filed(NextPage) \/ Filed(ReadSegment) \/ Filed(EndPage)
  \/ Filed(ClockMoves) \/ Filed(LogRestart)

PoolPart ==
  \/ \E c \in Callers :
       \/ Pool(BeginRequest(c)) \/ Pool(TakeIdle(c)) \/ Pool(ConnectionReady(c))
       \/ Pool(Connect(c)) \/ Pool(Send(c)) \/ Pool(ReceiveHead(c)) \/ Pool(TimesOut(c))
       \/ Pool(ReadReply(c)) \/ Pool(DropCall(c))
  \/ Pool(ServerEnds) \/ Pool(ServerStarts) \/ Pool(ServerClosesIdle)

AllNext == HandoverPart \/ FilesPart \/ PoolPart

AllSpec == AllInit /\ [][AllNext]_allVars
=============================================================================
