------------------------------- MODULE MCPanel -------------------------------
(***************************************************************************)
(* What stands beside the configuration, in one run: the switch of the      *)
(* KixDNS binary, what is known of its packages, the schedule of the        *)
(* updates, the logins, and the counts of the overview.  These parts share  *)
(* no state: a behaviour is a behaviour of the part chosen at the start,    *)
(* and the others stay as they are.                                         *)
(***************************************************************************)
EXTENDS KernelSwitch, UpdateSchedule, KernelPackages, Sessions, RequestMetrics

VARIABLE part

kernelParts == <<kernelVars, scheduleVars, packageVars>>
serverParts == <<sessionVars, metricsVars>>
allVars == <<part, kernelParts, serverParts>>

\* No package is offered.
NoOffer ==
  /\ offer = Nothing /\ seen = Nothing /\ found = Nothing /\ archive = Nothing /\ kept = Nothing
  /\ config = "plain" /\ stage = "start" /\ replacements = 0 /\ excuse = FALSE

Init ==
  /\ part \in {"kernel", "schedule", "package", "session", "metrics"}
  /\ KernelInit /\ (part # "kernel" => hostKind = "empty")
  /\ IF part = "package" THEN PackagesInit ELSE NoOffer
  /\ ScheduleInit /\ SessionsInit /\ MetricsInit

Kernel(action) ==
  /\ part = "kernel" /\ action
  /\ UNCHANGED <<part, scheduleVars, packageVars, serverParts>>
Schedule(action) ==
  /\ part = "schedule" /\ action
  /\ UNCHANGED <<part, kernelVars, packageVars, serverParts>>
Package(action) ==
  /\ part = "package" /\ action
  /\ UNCHANGED <<part, kernelVars, scheduleVars, serverParts>>
Session(action) ==
  /\ part = "session" /\ action /\ UNCHANGED <<part, kernelParts, metricsVars>>
Metrics(action) ==
  /\ part = "metrics" /\ action /\ UNCHANGED <<part, kernelParts, sessionVars>>
\* A host that knows its kernel by commit alone sees one release.
KernelPart ==
  \/ Kernel(StartPanel) \/ Kernel(CheckLegacy) \/ Kernel(BeginReplacement)
  \/ Kernel(FetchLatest) \/ Kernel(InstallResolved) \/ Kernel(ReadReplaced)
  \/ Kernel(AdoptVersion) \/ Kernel(AdoptRecord) \/ Kernel(LoadTarget)
  \/ Kernel(WriteBinary) \/ Kernel(RestartTarget) \/ Kernel(CheckTarget)
  \/ Kernel(RestoreBinary) \/ Kernel(RestartBack) \/ Kernel(CheckBack)
  \/ Kernel(RecordActive) \/ Kernel(RememberReplaced) \/ Kernel(NoteLegacy)
  \/ Kernel(PruneVersions) \/ Kernel(SettlePrevious) \/ Kernel(EndSwitch)
  \/ Kernel(\E shown \in 1 .. latest : BeginUpdate(shown))
  \/ Kernel(BeginRollback) \/ Kernel(hostKind # "commit" /\ Publish) \/ Kernel(PanelEnds)
  \/ Kernel(PageReads) \/ Kernel(PageAdopts) \/ Kernel(PageRecords)
  \/ Kernel(UnitStarts) \/ Kernel(UnitEnds)

SchedulePart ==
  \/ Schedule(SetIntervalReads) \/ Schedule(SetIntervalStores)
  \/ Schedule(LookWhetherDue) \/ Schedule(MarkAttemptReads)
  \/ Schedule(MarkAttemptStores) \/ Schedule(MarkResultReads)
  \/ Schedule(MarkResultStores) \/ Schedule(Tick) \/ Schedule(TaskEnds)

PackagePart ==
  \/ Package(ReadRelease) \/ Package(ReadManifest) \/ Package(DownloadPackage)
  \/ Package(NetworkFails) \/ Package(UnpackPackage) \/ Package(ReplaceFiles)
  \/ Package(AdoptBundled) \/ Package(CaptureCapabilities)

SessionPart ==
  \/ \E b \in Browsers :
       \/ Session(BeginSetup(b)) \/ Session(BeginLogin(b)) \/ Session(FindUser(b))
       \/ Session(TakeSlot(b)) \/ Session(VerifyPassword(b)) \/ Session(CreateFirstUser(b))
       \/ Session(Audit(b)) \/ Session(CreateSession(b)) \/ Session(DropLogin(b))
       \/ Session(Logout(b)) \/ Session(SessionExpires(b))
  \/ Session(WindowEnds) \/ Session(ResetAdmins) \/ Session(RestartSessions)

MetricsPart ==
  \/ Metrics(HealthAnswers) \/ Metrics(MetricsAnswers) \/ Metrics(EndReading)
  \/ Metrics(SampleMetrics) \/ Metrics(KernelAnswers) \/ Metrics(KernelStartsAgain)
  \/ Metrics(SecondPasses) \/ Metrics(PanelForgets)

Next == KernelPart \/ SchedulePart \/ PackagePart \/ SessionPart \/ MetricsPart

Fairness == WF_allVars(Kernel(SwitchStep))
Spec == Init /\ [][Next]_allVars /\ Fairness

\* A switch of the kernel under observation ends.
ObservedSwitchEnds == part = "kernel" => SwitchEnds

---------------------------------------------------------------------------
(* Values of the constants.                                                *)

DateParts == <<[number |-> 2026, width |-> 4], [number |-> 10, width |-> 2],
               [number |-> 13, width |-> 2]>>
\* 2026.10.13, .2, .9, .10, and .1 and 2026.13.1, which are no versions.
ReleaseTags ==
  {DateParts, <<[number |-> 2026, width |-> 4], [number |-> 13, width |-> 2],
                [number |-> 1, width |-> 1]>>}
  \union {Append(DateParts, [number |-> n, width |-> IF n > 9 THEN 2 ELSE 1]) : n \in {1, 2, 9, 10}}
=============================================================================
