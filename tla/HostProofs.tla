--------------------------------- MODULE HostProofs ---------------------------------
(***************************************************************************)
(* What changes the host itself: the replacement of the KixDNS binary, for *)
(* any number of releases, every kind of host and any number of faults;    *)
(* install.sh, for any number of runs, failures and losses;                *)
(* and the uninstaller, for any number of runs that fail anywhere.         *)
(* KernelInv says what each step of a switch may rely on: which binary is  *)
(* installed, which directories are whole, which of them the clean-up may  *)
(* still remove, and which the records name.  Pages, the service and the   *)
(* end of the panel run between any two steps.                             *)
(* InstallInv says what a run of the installer has saved and replaced at   *)
(* each of its steps, and what it can put back.                            *)
(* UninstallInv says what is left of the panel and of KixDNS at each step  *)
(* of the uninstaller, and what it still knows of the KixDNS it replaced.  *)
(***************************************************************************)
EXTENDS KernelSwitch, PanelInstall, PanelUninstall, TLAPS

---------------------------------------------------------------------------
(* The switch of the KixDNS binary: the invariant.                        *)

Pcs == {"start", "refused", "idle", "fetch", "install", "activate", "adopt", "adopted", "load",
        "write", "restart", "health", "restore", "restartBack", "healthBack", "record",
        "remember", "note", "prune", "settle", "ended"}
Outcomes == {"none", "failed", "unchanged", "done", "restored", "broken", "unsynced"}
SwitchType ==
  [pc : Pcs, kind : {"none", "start", "request", "task"},
   target : KernelOrNone, replaced : KernelOrNone, current : KernelOrNone,
   keep : KernelOrNone, doomed : SUBSET Kernels, running : BOOLEAN, outcome : Outcomes]

\* Where the target is the installed binary.
AfterWrite == {"restart", "health", "record", "remember", "note", "prune", "settle"}
\* Where the replaced kernel can still be put back.
BeforeRecord == {"write", "restart", "health", "record", "restore"}
\* Where the start of the panel can be.
StartPcs == {"start", "adopt", "adopted", "prune", "settle", "refused"}

\* Which steps belong to the start of the panel, and which names are given when.
ShapeInv ==
  /\ switch.kind = "start" => switch.pc \in StartPcs /\ page.pc = "idle"
  /\ switch.kind = "start" => switch.running = FALSE
  /\ switch.pc \in {"start", "settle", "refused"} => switch.kind = "start"
  /\ switch.pc # "prune" => switch.doomed = {}
  /\ switch.pc \in AfterWrite \union BeforeRecord \union {"install", "activate", "load"} =>
       switch.target \in Kernels
  /\ switch.pc \in {"adopt", "adopted"} => switch.replaced \in Kernels
  /\ switch.pc \in {"adopt", "adopted"} => switch.target \in Kernels
  /\ switch.kind = "start" /\ switch.pc \in {"adopt", "adopted"} =>
       switch.target = switch.replaced
  /\ page.pc # "idle" => page.key \in Kernels

\* What is installed, and what the service runs.
InstalledInv ==
  /\ switch.pc = "adopted" => program \in Kernels /\ versions[switch.replaced] = program
  /\ switch.pc = "write" => StoredWhole(switch.target)
  /\ switch.pc \in AfterWrite => program \in Kernels /\ program = versions[switch.target]
  /\ switch.pc \in {"restartBack", "healthBack"} => program = switch.current
  /\ switch.pc \in {"health", "record", "remember", "note", "prune", "healthBack"} =>
       (switch.running /\ unit.on => unit.runs = program)
  /\ switch.pc = "ended" /\ switch.outcome = "done" => switch.target \in Kernels /\ program \in Kernels
  /\ SwitchAllOrNothing

WholeOrNone(key) == key = NoKernel \/ (key \in Kernels /\ StoredWhole(key))

\* What is kept to go back to; the clean-up never has it on its list.
KeptInv ==
  /\ switch.pc \in {"load", "write", "restart", "health", "record", "remember"} =>
       WholeOrNone(switch.replaced)
  /\ switch.pc = "note" => switch.keep # NoKernel
  /\ switch.pc \in {"note", "prune", "settle"} =>
       WholeOrNone(switch.keep) \/ (switch.pc = "prune" /\ switch.kind # "start" /\ unnoted)
  /\ switch.pc = "ended" /\ switch.outcome = "done" => unnoted \/ WholeOrNone(switch.keep)
  /\ switch.pc \in {"note", "prune"} /\ switch.kind # "start" =>
       unnoted \/ switch.keep = NoKernel \/ previousKey = switch.keep
  /\ switch.pc = "ended" /\ switch.outcome = "done" =>
       unnoted \/ switch.keep = NoKernel \/ previousKey = switch.keep
  /\ switch.pc = "prune" => switch.target \notin switch.doomed /\ switch.keep \notin switch.doomed
  /\ switch.pc = "prune" => unnoted \/ previousKey \notin switch.doomed
  /\ unnoted \/ WholeOrNone(previousKey)

\* Where the package of kernel 0 is known, a key is its binary: neither the installed kernel
\* nor the recorded one is a directory that does not verify.
KnownInv ==
  /\ \A k \in Kernels : versions[k] \in {k, NoKernel, Damaged}
  /\ program = NoKernel \/ versions[program] # Damaged
  /\ switch.pc \in BeforeRecord => switch.current = NoKernel \/ versions[switch.current] # Damaged
  /\ outdated \/ activeKey = NoKernel \/ versions[activeKey] # Damaged
  /\ switch.pc \in {"remember", "note", "prune"} => outdated \/ activeKey = switch.target
  /\ switch.pc = "adopt" /\ switch.kind = "start" => CanAdopt(switch.replaced)
  /\ switch.pc = "refused" => switch.outcome = "failed" \/ outdated

KernelInv ==
  /\ KernelTypeOK /\ ShapeInv /\ InstalledInv /\ KeptInv
  /\ hostKind # "commit" => KnownInv

---------------------------------------------------------------------------
(* What the model's operators do to a switch.                              *)

USE KernelAssumption DEF KernelAssumption

LEMMA KernelsAreNumbers ==
  /\ Kernels \subseteq Nat /\ 0 \in Kernels /\ 1 \in 1 .. MaxKernel
  /\ 1 .. MaxKernel \subseteq Kernels
  /\ NoKernel \notin Kernels /\ Damaged \notin Kernels /\ NoKernel # Damaged
BY DEF Kernels

LEMMA TypeFacts ==
  ASSUME KernelTypeOK
  PROVE  /\ hostKind \in {"fork", "action", "commit", "empty"}
         /\ program \in KernelOrNone /\ switch \in SwitchType
         /\ versions \in [Kernels -> Kernels \union {NoKernel, Damaged}]
         /\ activeKey \in KernelOrNone /\ previousKey \in KernelOrNone
         /\ legacyGone \in BOOLEAN /\ unnoted \in BOOLEAN /\ outdated \in BOOLEAN
         /\ unit \in [on : BOOLEAN, runs : KernelOrNone]
         /\ latest \in Kernels
         /\ switch.target \in KernelOrNone /\ switch.replaced \in KernelOrNone
         /\ switch.current \in KernelOrNone /\ switch.keep \in KernelOrNone
         /\ switch.pc \in Pcs /\ switch.outcome \in Outcomes /\ switch.doomed \subseteq Kernels
         /\ page \in [pc : {"idle", "adopt", "record"}, key : KernelOrNone]
BY KernelsAreNumbers DEF KernelTypeOK, SwitchType, Pcs, Outcomes

\* ActiveVersion is a kernel or none.
LEMMA ActiveIsKernel ==
  ASSUME KernelTypeOK
  PROVE  /\ ActiveVersion \in KernelOrNone
         /\ ActiveVersion # NoKernel => program \in Kernels
         /\ PreviousOf(ActiveVersion) \in KernelOrNone
BY TypeFacts, KernelsAreNumbers DEF ActiveVersion, KernelOrNone, PreviousOf

LEMMA FixedSwitches ==
  /\ NoSwitch \in SwitchType /\ Starting \in SwitchType
  /\ NoSwitch.pc = "idle" /\ NoSwitch.kind = "none" /\ NoSwitch.doomed = {}
  /\ NoSwitch.outcome = "none" /\ NoSwitch.running = FALSE
  /\ Starting.pc = "start" /\ Starting.kind = "start" /\ Starting.doomed = {}
  /\ Starting.outcome = "none" /\ Starting.running = FALSE
BY DEF NoSwitch, Starting, SwitchType, Pcs, Outcomes, KernelOrNone

\* Everything of a switch but its place.
SameOperands(new) ==
  /\ new.kind = switch.kind /\ new.target = switch.target /\ new.replaced = switch.replaced
  /\ new.current = switch.current /\ new.running = switch.running /\ new.keep = switch.keep
  /\ new.doomed = switch.doomed /\ new.outcome = switch.outcome

LEMMA StepMoves ==
  ASSUME switch \in SwitchType, NEW pc \in Pcs, Step(pc)
  PROVE  switch' \in SwitchType /\ switch'.pc = pc /\ SameOperands(switch')
BY DEF Step, SwitchType, SameOperands

LEMMA EndAsEnds ==
  ASSUME switch \in SwitchType, NEW outcome \in Outcomes, EndAs(outcome)
  PROVE  /\ switch' \in SwitchType /\ switch'.pc = "ended" /\ switch'.outcome = outcome
         /\ switch'.doomed = {} /\ switch'.replaced = NoKernel
         /\ switch'.kind = switch.kind /\ switch'.target = switch.target
         /\ switch'.current = switch.current /\ switch'.running = switch.running
         /\ switch'.keep = switch.keep
BY DEF EndAs, SwitchType, Pcs, KernelOrNone

LEMMA GiveUpEnds ==
  ASSUME switch \in SwitchType, GiveUp
  PROVE  \/ /\ switch.kind = "start" /\ switch'.pc = "refused"
            /\ switch' \in SwitchType /\ SameOperands(switch')
         \/ /\ switch.kind # "start" /\ switch'.pc = "ended" /\ switch'.outcome = "failed"
            /\ switch' \in SwitchType /\ switch'.doomed = {}
            /\ switch'.kind = switch.kind
<1>1. CASE switch.kind = "start"
  BY <1>1, StepMoves DEF GiveUp, Pcs
<1>2. CASE switch.kind # "start"
  BY <1>2, EndAsEnds DEF GiveUp, Outcomes
<1> QED BY <1>1, <1>2

LEMMA ToPruneLists ==
  ASSUME KernelTypeOK, NEW keep \in KernelOrNone, ToPrune(keep)
  PROVE  /\ switch' \in SwitchType /\ switch'.pc = "prune" /\ switch'.keep = keep
         /\ switch'.kind = switch.kind /\ switch'.target = switch.target
         /\ switch'.running = switch.running /\ switch'.outcome = switch.outcome
         /\ switch'.doomed = {k \in Kernels : StoredWhole(k) /\ k \notin {switch.target, keep}}
BY TypeFacts DEF ToPrune, SwitchType, Pcs, KernelOrNone

\* A start or restart of the service runs what is installed.
LEMMA LaunchedRuns ==
  ASSUME KernelTypeOK
  PROVE  /\ Launched \in [on : BOOLEAN, runs : KernelOrNone] /\ Launched.runs = program
         /\ Down \in [on : BOOLEAN, runs : KernelOrNone] /\ Down.on = FALSE
BY TypeFacts DEF Launched, Down, KernelOrNone

\* Adopting a key stores the installed binary, and changes no directory that holds one.
LEMMA AdoptedStores ==
  ASSUME KernelTypeOK, NEW key \in Kernels, CanAdopt(key)
  PROVE  /\ program \in Kernels
         /\ Adopted(key) \in [Kernels -> Kernels \union {NoKernel, Damaged}]
         /\ Adopted(key)[key] = program
         /\ \A k \in Kernels : versions[k] # NoKernel => Adopted(key)[k] = versions[k]
         /\ \A k \in Kernels \ {key} : Adopted(key)[k] = versions[k]
BY TypeFacts DEF CanAdopt, Adopted, KernelOrNone

---------------------------------------------------------------------------
(* The invariant, action by action.                                        *)

USE DEF kernelFiles, kernelSettings, kernelRest, kernelHistory, kernelBeside, NoFault

LEMMA FaultCounts ==
  ASSUME KernelTypeOK, Fault \/ UNCHANGED kernelFaults
  PROVE  kernelFaults' \in 0 .. MaxKernelFaults
BY DEF KernelTypeOK, Fault

LEMMA InitHolds == KernelInit => KernelInv
<1> SUFFICES ASSUME KernelInit PROVE KernelInv
  OBVIOUS
<1>1. KernelTypeOK
  <2>1. /\ program \in KernelOrNone /\ NoPage \in [pc : {"idle", "adopt", "record"}, key : KernelOrNone]
        /\ versions \in [Kernels -> Kernels \union {NoKernel, Damaged}]
    BY KernelsAreNumbers DEF KernelInit, KernelOrNone, NoPage
  <2>2. unit \in [on : BOOLEAN, runs : KernelOrNone]
    BY <2>1 DEF KernelInit, Launched, Down, KernelOrNone
  <2>3. /\ hostKind \in HostKinds /\ activeKey \in KernelOrNone /\ previousKey \in KernelOrNone
        /\ legacyGone \in BOOLEAN /\ unnoted \in BOOLEAN /\ outdated \in BOOLEAN
        /\ latest \in 1 .. MaxKernel /\ legacyTask \in {"none", "due", "waiting"}
        /\ kernelFaults \in 0 .. MaxKernelFaults
    <3>1. latest = 1 /\ kernelFaults = 0
      BY DEF KernelInit
    <3>2. latest \in 1 .. MaxKernel /\ kernelFaults \in 0 .. MaxKernelFaults
      BY <3>1
    <3> QED BY <3>2 DEF KernelInit, KernelOrNone
  <2>4. switch \in SwitchType /\ page = NoPage
    BY FixedSwitches DEF KernelInit
  <2> QED BY <2>1, <2>2, <2>3, <2>4 DEF KernelTypeOK, SwitchType, Pcs, Outcomes
<1>2. ShapeInv /\ InstalledInv /\ KeptInv
  BY <1>1, KernelsAreNumbers, FixedSwitches
     DEF KernelInit, ShapeInv, InstalledInv, KeptInv, SwitchAllOrNothing, AfterWrite, BeforeRecord,
         StartPcs, NoPage, WholeOrNone
<1>3. KnownInv
  BY KernelsAreNumbers, FixedSwitches DEF KernelInit, KnownInv, BeforeRecord
<1> QED BY <1>1, <1>2, <1>3 DEF KernelInv

LEMMA PageReadsKeeps == ASSUME KernelInv, PageReads PROVE KernelInv'
<1>1. /\ KernelTypeOK /\ page' \in [pc : {"idle", "adopt", "record"}, key : KernelOrNone]
      /\ page'.key \in Kernels /\ switch.kind # "start" /\ ActiveVersion \in Kernels
  BY ActiveIsKernel DEF PageReads, Serving, KernelInv, KernelOrNone
<1>2. KernelTypeOK'
  BY <1>1 DEF PageReads, KernelTypeOK
<1>3. ShapeInv' /\ InstalledInv' /\ KeptInv' /\ (hostKind' # "commit" => KnownInv')
  BY <1>1 DEF PageReads, KernelInv, ShapeInv, InstalledInv, KeptInv, KnownInv,
     SwitchAllOrNothing,
         StoredWhole, WholeOrNone, CanAdopt, Tracked, BundledMatches
<1> QED BY <1>2, <1>3 DEF KernelInv

LEMMA PageAdoptsKeeps == ASSUME KernelInv, PageAdopts PROVE KernelInv'
<1>1. KernelTypeOK /\ page \in [pc : {"idle", "adopt", "record"}, key : KernelOrNone]
      /\ page.key \in Kernels /\ switch.kind # "start"
  BY TypeFacts DEF PageAdopts, KernelInv, ShapeInv
<1>2. CASE ~CanAdopt(page.key)
  <2>1. KernelTypeOK'
    BY <1>1, <1>2 DEF PageAdopts, KernelTypeOK, NoPage, KernelOrNone
  <2>2. ShapeInv' /\ InstalledInv' /\ KeptInv' /\ (hostKind' # "commit" => KnownInv')
    BY <1>1, <1>2 DEF PageAdopts, KernelInv, ShapeInv, InstalledInv, KeptInv, KnownInv, NoPage,
         SwitchAllOrNothing, StoredWhole, WholeOrNone, CanAdopt, Tracked, BundledMatches
  <2> QED BY <2>1, <2>2 DEF KernelInv
<1>3. CASE CanAdopt(page.key)
  <2>1. /\ program \in Kernels /\ versions' \in [Kernels -> Kernels \union {NoKernel, Damaged}]
        /\ versions'[page.key] = program
        /\ \A k \in Kernels : versions[k] # NoKernel => versions'[k] = versions[k]
        /\ \A k \in Kernels \ {page.key} : versions'[k] = versions[k]
        /\ page'.key = page.key /\ page'.pc = "record"
        /\ page' \in [pc : {"idle", "adopt", "record"}, key : KernelOrNone]
    BY <1>1, <1>3, AdoptedStores DEF PageAdopts
  <2> HIDE <1>3
  <2>2. KernelTypeOK'
    BY <1>1, <2>1 DEF PageAdopts, KernelTypeOK
  <2>3. ShapeInv'
    BY <1>1, <2>1 DEF PageAdopts, KernelInv, ShapeInv
  <2>4. InstalledInv'
    BY <1>1, <2>1, KernelsAreNumbers DEF PageAdopts, KernelInv, ShapeInv, InstalledInv,
       SwitchAllOrNothing, StoredWhole, AfterWrite, BeforeRecord
  <2>5. KeptInv'
    BY <1>1, <2>1, KernelsAreNumbers DEF PageAdopts, KernelInv, KeptInv, StoredWhole,
       WholeOrNone
  <2>6. hostKind' # "commit" => KnownInv'
    <3> SUFFICES ASSUME hostKind # "commit" PROVE KnownInv'
      BY DEF PageAdopts
    <3>1. versions[page.key] = program \/ (versions[page.key] = NoKernel /\ page.key = program)
      BY <1>3 DEF CanAdopt, Tracked, BundledMatches
    <3>2. \A k \in Kernels : versions'[k] \in {k, NoKernel, Damaged}
      BY <2>1, <3>1, KernelsAreNumbers DEF KernelInv, KnownInv
    <3>3. \A k \in Kernels : versions[k] # Damaged => versions'[k] # Damaged
      BY <2>1, KernelsAreNumbers
    <3> QED BY <1>1, <2>1, <3>2, <3>3, TypeFacts, KernelsAreNumbers
      DEF PageAdopts, KernelInv, KnownInv, KernelOrNone
  <2> QED BY <2>2, <2>3, <2>4, <2>5, <2>6 DEF KernelInv
<1> QED BY <1>2, <1>3

LEMMA PageRecordsKeeps == ASSUME KernelInv, PageRecords PROVE KernelInv'
<1>1. KernelTypeOK /\ page.key \in Kernels /\ switch.kind # "start" /\ switch.pc # "refused"
  BY TypeFacts DEF PageRecords, KernelInv, ShapeInv
<1>2. KernelTypeOK'
  BY <1>1 DEF PageRecords, KernelTypeOK, NoPage, KernelOrNone
<1>3. ShapeInv' /\ InstalledInv' /\ KeptInv'
  BY <1>1 DEF PageRecords, KernelInv, ShapeInv, InstalledInv, KeptInv, NoPage,
         SwitchAllOrNothing, StoredWhole, WholeOrNone
<1>4. hostKind' # "commit" => KnownInv'
  <2>1. /\ activeKey' = page.key /\ outdated' = (versions[page.key] # program)
        /\ UNCHANGED <<hostKind, program, versions, switch>>
    BY DEF PageRecords, kernelFiles, kernelRest
  <2> SUFFICES ASSUME hostKind # "commit"
               PROVE  KnownInv'
    BY <2>1
  <2>2. KnownInv
    BY DEF KernelInv
  <2>3. outdated' \/ versions[activeKey'] # Damaged
    <3>1. program \in KernelOrNone /\ program # Damaged
      BY <1>1, TypeFacts, KernelsAreNumbers DEF KernelOrNone
    <3> QED BY <2>1, <2>2, <3>1 DEF KnownInv
  <2>4. switch.pc \in {"remember", "note", "prune"} => outdated' \/ activeKey' = switch.target
    <3>1. switch.pc \in {"remember", "note", "prune"} =>
            program \in Kernels /\ program = versions[switch.target] /\ switch.target \in Kernels
      BY DEF KernelInv, InstalledInv, ShapeInv, AfterWrite
    <3>2. page.key \in Kernels /\ \A k \in Kernels : versions[k] \in {k, NoKernel, Damaged}
      BY <1>1, <2>2 DEF KnownInv
    <3> QED BY <2>1, <3>1, <3>2, KernelsAreNumbers
  <2> QED BY <1>1, <2>1, <2>2, <2>3, <2>4 DEF KnownInv
<1> QED BY <1>2, <1>3, <1>4 DEF KernelInv

LEMMA UnitKeeps == ASSUME KernelInv, UnitStarts \/ UnitEnds PROVE KernelInv'
<1>1. /\ KernelTypeOK /\ unit' \in [on : BOOLEAN, runs : KernelOrNone]
      /\ unit'.on => unit'.runs = program
  BY LaunchedRuns DEF UnitStarts, UnitEnds, KernelInv
<1>2. UNCHANGED <<hostKind, program, versions, activeKey, previousKey, legacyGone, latest, switch,
                  page, legacyTask, kernelFaults, unnoted, outdated>>
  BY DEF UnitStarts, UnitEnds
<1>3. KernelTypeOK'
  BY <1>1, <1>2 DEF KernelTypeOK
<1>4. ShapeInv' /\ KeptInv' /\ (hostKind' # "commit" => KnownInv')
  BY <1>2 DEF KernelInv, ShapeInv, KeptInv, KnownInv, StoredWhole, WholeOrNone, CanAdopt,
     Tracked,
       BundledMatches
<1>5. InstalledInv'
  BY <1>1, <1>2 DEF KernelInv, InstalledInv, SwitchAllOrNothing, StoredWhole
<1> QED BY <1>3, <1>4, <1>5 DEF KernelInv

LEMMA PublishKeeps == ASSUME KernelInv, Publish PROVE KernelInv'
<1>1. KernelTypeOK /\ latest' \in 1 .. MaxKernel
  BY DEF Publish, KernelInv, KernelTypeOK
<1>2. UNCHANGED <<hostKind, program, versions, activeKey, previousKey, legacyGone, unit, switch,
                  page, legacyTask, kernelFaults, unnoted, outdated>>
  BY DEF Publish
<1>3. KernelTypeOK'
  BY <1>1, <1>2 DEF KernelTypeOK
<1>4. ShapeInv' /\ KeptInv' /\ (hostKind' # "commit" => KnownInv')
  BY <1>2 DEF KernelInv, ShapeInv, KeptInv, KnownInv, StoredWhole, WholeOrNone, CanAdopt,
     Tracked,
       BundledMatches
<1>5. InstalledInv'
  BY <1>2 DEF KernelInv, InstalledInv, SwitchAllOrNothing, StoredWhole
<1> QED BY <1>3, <1>4, <1>5 DEF KernelInv

\* The clean-up has neither the installed kernel nor the recorded one on its list.
LEMMA DoomedIsNotInUse ==
  ASSUME KernelInv, NEW k \in switch.doomed
  PROVE  /\ switch.pc = "prune" /\ k \in Kernels /\ k # switch.target /\ k # switch.keep
         /\ unnoted \/ previousKey # k
         /\ hostKind # "commit" => program # k /\ (outdated \/ activeKey # k)
<1>1. switch.pc = "prune" /\ k \in Kernels /\ switch.target \in Kernels
  BY TypeFacts DEF KernelInv, ShapeInv, AfterWrite
<1>2. k # switch.target /\ k # switch.keep /\ (unnoted \/ previousKey # k)
  BY <1>1 DEF KernelInv, KeptInv
<1>3. ASSUME hostKind # "commit" PROVE program = switch.target
  BY <1>1, <1>3, KernelsAreNumbers DEF KernelInv, KnownInv, InstalledInv, AfterWrite
<1> QED BY <1>1, <1>2, <1>3 DEF KernelInv, KnownInv

LEMMA PanelEndsKeeps == ASSUME KernelInv, PanelEnds PROVE KernelInv'
<1>1. /\ KernelTypeOK /\ switch' = Starting /\ page' = NoPage /\ NoPage.pc = "idle"
      /\ NoPage \in [pc : {"idle", "adopt", "record"}, key : KernelOrNone]
      /\ unnoted' \in BOOLEAN /\ (unnoted => unnoted') /\ legacyTask' = "none"
      /\ UNCHANGED <<hostKind, latest, program, activeKey, previousKey, legacyGone, unit, outdated>>
  BY DEF PanelEnds, KernelInv, KernelTypeOK, NoPage, KernelOrNone
<1>2. kernelFaults' \in 0 .. MaxKernelFaults
  BY <1>1, FaultCounts DEF PanelEnds
<1>3. versions' = versions \/ \E k \in switch.doomed : versions' = [versions EXCEPT ![k] = Damaged]
  BY DEF PanelEnds
<1>4. /\ versions' \in [Kernels -> Kernels \union {NoKernel, Damaged}]
      /\ \A k \in Kernels :
           versions'[k] = versions[k] \/ (k \in switch.doomed /\ versions'[k] = Damaged)
  BY <1>1, <1>3, TypeFacts
<1>5. KernelTypeOK'
  BY <1>1, <1>2, <1>4, FixedSwitches DEF KernelTypeOK, SwitchType, Pcs, Outcomes
<1>6. ShapeInv' /\ InstalledInv'
  BY <1>1, FixedSwitches
     DEF ShapeInv, InstalledInv, SwitchAllOrNothing, AfterWrite, BeforeRecord, StartPcs
<1>7. KeptInv'
  <2>1. unnoted' \/ WholeOrNone(previousKey)'
    BY <1>1, <1>4, DoomedIsNotInUse DEF KernelInv, KeptInv, WholeOrNone, StoredWhole
  <2> QED BY <1>1, <2>1, FixedSwitches DEF KeptInv
<1>8. hostKind' # "commit" => KnownInv'
  BY <1>1, <1>4, DoomedIsNotInUse, FixedSwitches, TypeFacts
     DEF KernelInv, KnownInv, BeforeRecord, KernelOrNone
<1> QED BY <1>5, <1>6, <1>7, <1>8 DEF KernelInv

LEMMA StartPanelKeeps == ASSUME KernelInv, StartPanel PROVE KernelInv'
<1>1. /\ KernelTypeOK /\ switch.pc = "start" /\ switch.kind = "start" /\ page.pc = "idle"
      /\ switch.doomed = {} /\ legacyTask' \in {"none", "due", "waiting"}
      /\ UNCHANGED <<hostKind, program, versions, activeKey, previousKey, legacyGone, unit, latest,
                     page, kernelFaults, unnoted, outdated>>
  BY DEF StartPanel, KernelInv, ShapeInv
<1>2. CASE ActiveUnreadable
  <2>1. switch' \in SwitchType /\ switch'.pc = "refused" /\ SameOperands(switch')
    BY <1>1, <1>2, StepMoves, TypeFacts DEF StartPanel, Pcs
  <2>2. KernelTypeOK'
    BY <1>1, <2>1 DEF KernelTypeOK, SwitchType, Pcs, Outcomes
  <2>3. ShapeInv' /\ InstalledInv' /\ KeptInv'
    BY <1>1, <2>1 DEF KernelInv, ShapeInv, InstalledInv, KeptInv, SwitchAllOrNothing,
       AfterWrite,
       BeforeRecord, StartPcs, SameOperands, WholeOrNone, StoredWhole
  <2>4. hostKind' # "commit" => KnownInv'
    BY <1>1, <1>2, <2>1 DEF KernelInv, KnownInv, BeforeRecord, ActiveUnreadable
  <2> QED BY <2>2, <2>3, <2>4 DEF KernelInv
<1>3. CASE ~ActiveUnreadable /\ ActiveVersion = NoKernel
  <2>1. switch' = NoSwitch
    BY <1>3 DEF StartPanel
  <2>2. KernelTypeOK'
    BY <1>1, <2>1, FixedSwitches DEF KernelTypeOK, SwitchType, Pcs, Outcomes
  <2>3. ShapeInv' /\ InstalledInv' /\ KeptInv' /\ (hostKind' # "commit" => KnownInv')
    BY <1>1, <2>1, FixedSwitches DEF KernelInv, ShapeInv, InstalledInv, KeptInv, KnownInv,
       SwitchAllOrNothing, AfterWrite, BeforeRecord, WholeOrNone, StoredWhole
  <2> QED BY <2>2, <2>3 DEF KernelInv
<1>4. CASE ~ActiveUnreadable /\ ActiveVersion # NoKernel
  <2>1. ActiveVersion \in Kernels /\ program \in Kernels
    BY <1>1, <1>4, ActiveIsKernel DEF KernelOrNone
  <2>2. /\ switch' \in SwitchType /\ switch'.pc = "adopt" /\ switch'.doomed = {}
        /\ switch'.target = ActiveVersion /\ switch'.replaced = ActiveVersion
        /\ switch'.kind = "start" /\ switch'.running = switch.running
    <3>1. switch' = [switch EXCEPT !.pc = "adopt", !.target = ActiveVersion,
                                   !.replaced = ActiveVersion]
      BY <1>4 DEF StartPanel
    <3>2. switch \in SwitchType /\ ActiveVersion \in KernelOrNone
      BY <1>1, <2>1, TypeFacts DEF KernelOrNone
    <3> QED BY <1>1, <3>1, <3>2 DEF SwitchType, Pcs
  <2>3. KernelTypeOK'
    BY <1>1, <2>2 DEF KernelTypeOK, SwitchType, Pcs, Outcomes
  <2>4. ShapeInv' /\ InstalledInv' /\ KeptInv'
    BY <1>1, <2>1, <2>2 DEF KernelInv, ShapeInv, InstalledInv, KeptInv, SwitchAllOrNothing,
       AfterWrite, BeforeRecord, StartPcs, WholeOrNone, StoredWhole
  <2>5. ASSUME hostKind # "commit" PROVE CanAdopt(ActiveVersion)
    BY <1>1, <1>4, <2>1, <2>5, KernelsAreNumbers
       DEF KernelInv, KnownInv, CanAdopt, ActiveVersion, BundledMatches
  <2>6. hostKind' # "commit" => KnownInv'
    BY <1>1, <2>2, <2>5 DEF KernelInv, KnownInv, BeforeRecord, CanAdopt, Tracked, BundledMatches
  <2> QED BY <2>3, <2>4, <2>6 DEF KernelInv
<1> QED BY <1>2, <1>3, <1>4

USE DEF AfterWrite, BeforeRecord, StartPcs, WholeOrNone, StoredWhole

LEMMA TypeMoves ==
  ASSUME KernelTypeOK, switch' \in SwitchType, kernelFaults' \in 0 .. MaxKernelFaults,
         UNCHANGED <<hostKind, program, versions, activeKey, previousKey, legacyGone, unit, latest,
                     page, legacyTask, unnoted, outdated>>
  PROVE  KernelTypeOK'
BY DEF KernelTypeOK, SwitchType, Pcs, Outcomes

\* The same when the active version is written down.
LEMMA TypeRecords ==
  ASSUME KernelTypeOK, switch' \in SwitchType, kernelFaults' \in 0 .. MaxKernelFaults,
         activeKey' \in KernelOrNone, outdated' \in BOOLEAN,
         UNCHANGED <<hostKind, program, versions, previousKey, legacyGone, unit, latest,
                     page, legacyTask, unnoted>>
  PROVE  KernelTypeOK'
BY DEF KernelTypeOK, SwitchType, Pcs, Outcomes

\* A switch that ends with neither of the two promises.
LEMMA EndedKeeps ==
  ASSUME KernelInv, switch.kind # "start", NEW outcome \in Outcomes \ {"done", "restored"},
         EndAs(outcome), kernelFaults' \in 0 .. MaxKernelFaults,
         program' \in KernelOrNone, unit' \in [on : BOOLEAN, runs : KernelOrNone],
         hostKind # "commit" => program' = NoKernel \/ versions[program'] # Damaged,
         UNCHANGED <<hostKind, versions, activeKey, previousKey, legacyGone, latest,
                     page, legacyTask, unnoted, outdated>>
  PROVE  KernelInv'
<1>1. /\ KernelTypeOK /\ switch' \in SwitchType /\ switch'.pc = "ended"
      /\ switch'.outcome = outcome /\ switch'.doomed = {} /\ switch'.kind # "start"
  BY TypeFacts, EndAsEnds DEF KernelInv
<1>2. KernelTypeOK'
  BY <1>1 DEF KernelTypeOK, SwitchType, Pcs, Outcomes
<1>3. ShapeInv' /\ InstalledInv' /\ KeptInv'
  BY <1>1 DEF KernelInv, ShapeInv, InstalledInv, KeptInv, SwitchAllOrNothing
<1>4. hostKind' # "commit" => KnownInv'
  BY <1>1 DEF KernelInv, KnownInv
<1> QED BY <1>2, <1>3, <1>4 DEF KernelInv

\* An error before the binary is touched; it refuses a start that could not adopt.
LEMMA GiveUpKeeps ==
  ASSUME KernelInv, GiveUp, kernelFaults' \in 0 .. MaxKernelFaults, switch.pc # "prune",
         switch.kind = "start" => switch.pc = "adopt" /\ ~CanAdopt(switch.replaced),
         UNCHANGED <<hostKind, program, versions, activeKey, previousKey, legacyGone, unit, latest,
                     page, legacyTask, unnoted, outdated>>
  PROVE  KernelInv'
<1>1. KernelTypeOK /\ switch \in SwitchType
  BY TypeFacts DEF KernelInv
<1>2. CASE switch.kind = "start"
  <2>1. /\ hostKind = "commit" /\ switch'.kind = "start" /\ switch'.pc = "refused"
        /\ switch' \in SwitchType /\ SameOperands(switch')
    BY <1>1, <1>2, GiveUpEnds DEF KernelInv, KnownInv, SameOperands
  <2>2. KernelTypeOK'
    BY <1>1, <2>1, TypeMoves
  <2>3. ShapeInv' /\ InstalledInv' /\ KeptInv'
    BY <1>1, <2>1 DEF KernelInv, ShapeInv, InstalledInv, KeptInv, SwitchAllOrNothing,
       SameOperands
  <2> QED BY <2>1, <2>2, <2>3 DEF KernelInv
<1>3. CASE switch.kind # "start"
  <2>1. EndAs("failed") /\ "failed" \in Outcomes \ {"done", "restored"}
    BY <1>3 DEF GiveUp, Outcomes
  <2>2. hostKind # "commit" => program = NoKernel \/ versions[program] # Damaged
    BY DEF KernelInv, KnownInv
  <2> QED BY <1>1, <1>3, <2>1, <2>2, EndedKeeps, TypeFacts
<1> QED BY <1>2, <1>3

LEMMA CheckLegacyKeeps == ASSUME KernelInv, CheckLegacy PROVE KernelInv'
<1>1. KernelTypeOK /\ legacyTask' \in {"none", "due", "waiting"}
  BY DEF CheckLegacy, KernelInv
<1>2. UNCHANGED <<hostKind, program, versions, activeKey, previousKey, legacyGone, unit, latest,
                  switch, page, kernelFaults, unnoted, outdated>>
  BY DEF CheckLegacy
<1>3. KernelTypeOK'
  BY <1>1, <1>2 DEF KernelTypeOK
<1>4. ShapeInv' /\ InstalledInv' /\ KeptInv' /\ (hostKind' # "commit" => KnownInv')
  BY <1>2 DEF KernelInv, ShapeInv, InstalledInv, KeptInv, KnownInv, SwitchAllOrNothing,
       CanAdopt, Tracked, BundledMatches
<1> QED BY <1>3, <1>4 DEF KernelInv

\* A switch begins, with nothing done.
LEMMA BegunKeeps ==
  ASSUME KernelInv, switch.pc = "idle", switch' \in SwitchType, switch'.pc \in {"fetch", "activate"},
         switch'.kind # "start", switch'.doomed = {},
         switch'.pc = "activate" => switch'.target \in Kernels,
         legacyTask' \in {"none", "due", "waiting"},
         UNCHANGED <<hostKind, program, versions, activeKey, previousKey, legacyGone, unit, latest,
                     page, kernelFaults, unnoted, outdated>>
  PROVE  KernelInv'
<1>1. KernelTypeOK'
  BY DEF KernelInv, KernelTypeOK, SwitchType, Pcs, Outcomes
<1>2. ShapeInv' /\ InstalledInv' /\ KeptInv' /\ (hostKind' # "commit" => KnownInv')
  BY DEF KernelInv, ShapeInv, InstalledInv, KeptInv, KnownInv, SwitchAllOrNothing
<1> QED BY <1>1, <1>2 DEF KernelInv

LEMMA BeginKeeps ==
  ASSUME KernelInv,
         (\E shown \in 1 .. latest : BeginUpdate(shown)) \/ BeginRollback \/ BeginReplacement
  PROVE  KernelInv'
<1>1. KernelTypeOK /\ PreviousOf(ActiveVersion) \in KernelOrNone /\ latest \in 1 .. MaxKernel
  BY ActiveIsKernel DEF KernelInv, KernelTypeOK
<1>2. ASSUME NEW shown \in 1 .. latest, BeginUpdate(shown) PROVE KernelInv'
  <2>1. shown \in KernelOrNone
    BY <1>1 DEF KernelOrNone, Kernels
  <2>2. /\ switch' \in SwitchType /\ switch'.pc = "fetch" /\ switch'.kind = "request"
        /\ switch'.doomed = {}
    BY <1>2, <2>1, FixedSwitches DEF BeginUpdate, SwitchType, Pcs
  <2> QED BY <1>1, <1>2, <2>2, BegunKeeps DEF BeginUpdate, KernelTypeOK
<1>3. ASSUME BeginRollback PROVE KernelInv'
  <2>1. /\ switch' \in SwitchType /\ switch'.pc = "activate" /\ switch'.kind = "request"
        /\ switch'.doomed = {} /\ switch'.target = PreviousOf(ActiveVersion)
    BY <1>1, <1>3, FixedSwitches DEF BeginRollback, SwitchType, Pcs
  <2>2. switch'.target \in Kernels
    BY <1>1, <1>3, <2>1 DEF BeginRollback, KernelOrNone
  <2> QED BY <1>1, <1>3, <2>1, <2>2, BegunKeeps DEF BeginRollback, KernelTypeOK
<1>4. ASSUME BeginReplacement PROVE KernelInv'
  <2>1. /\ switch' \in SwitchType /\ switch'.pc = "fetch" /\ switch'.kind = "task"
        /\ switch'.doomed = {}
    BY <1>4, FixedSwitches DEF BeginReplacement, SwitchType, Pcs
  <2> QED BY <1>1, <1>4, <2>1, BegunKeeps DEF BeginReplacement, KernelTypeOK
<1> QED BY <1>2, <1>3, <1>4

LEMMA FetchLatestKeeps == ASSUME KernelInv, FetchLatest PROVE KernelInv'
<1>1. /\ KernelTypeOK /\ switch.pc = "fetch" /\ switch.kind # "start" /\ switch.doomed = {}
      /\ kernelFaults' \in 0 .. MaxKernelFaults
      /\ UNCHANGED <<hostKind, program, versions, activeKey, previousKey, legacyGone, unit, latest,
                     page, legacyTask, kernelFaults, unnoted, outdated>>
  BY FaultCounts DEF FetchLatest, KernelInv, ShapeInv
<1>2. CASE GiveUp
  BY <1>1, <1>2, GiveUpKeeps
<1>3. CASE EndAs("unchanged")
  <2>1. hostKind # "commit" => program = NoKernel \/ versions[program] # Damaged
    BY DEF KernelInv, KnownInv
  <2> QED BY <1>1, <1>3, <2>1, EndedKeeps, TypeFacts DEF Outcomes
<1>4. CASE switch' = [switch EXCEPT !.pc = "install", !.target = latest]
  <2>1. /\ switch' \in SwitchType /\ switch'.pc = "install" /\ switch'.target \in Kernels
        /\ switch'.doomed = {} /\ switch'.kind = switch.kind
    BY <1>1, <1>4, TypeFacts DEF SwitchType, Pcs, KernelOrNone
  <2>2. KernelTypeOK'
    BY <1>1, <2>1, TypeMoves
  <2>3. ShapeInv' /\ InstalledInv' /\ KeptInv' /\ (hostKind' # "commit" => KnownInv')
    BY <1>1, <2>1
       DEF KernelInv, ShapeInv, InstalledInv, KeptInv, KnownInv, SwitchAllOrNothing
  <2> QED BY <2>2, <2>3 DEF KernelInv
<1> QED BY <1>2, <1>3, <1>4 DEF FetchLatest

LEMMA InstallResolvedKeeps == ASSUME KernelInv, InstallResolved PROVE KernelInv'
<1>1. /\ KernelTypeOK /\ switch.pc = "install" /\ switch.kind # "start" /\ switch.doomed = {}
      /\ switch.target \in Kernels /\ kernelFaults' \in 0 .. MaxKernelFaults
      /\ UNCHANGED <<hostKind, program, activeKey, previousKey, legacyGone, unit, latest,
                     page, legacyTask, kernelFaults, unnoted, outdated>>
  BY FaultCounts DEF InstallResolved, KernelInv, ShapeInv
<1>2. CASE GiveUp /\ UNCHANGED versions
  BY <1>1, <1>2, GiveUpKeeps
<1>3. CASE /\ versions[switch.target] # Damaged /\ Step("activate")
           /\ versions' = IF StoredWhole(switch.target) THEN versions
                          ELSE [versions EXCEPT ![switch.target] = switch.target]
  <2>1. /\ switch' \in SwitchType /\ switch'.pc = "activate" /\ SameOperands(switch')
    BY <1>1, <1>3, StepMoves, TypeFacts DEF Pcs
  <2>2. /\ versions' \in [Kernels -> Kernels \union {NoKernel, Damaged}]
        /\ \A k \in Kernels : versions'[k] = versions[k]
                              \/ (versions'[k] = k /\ versions[k] = NoKernel)
    BY <1>1, <1>3, TypeFacts
  <2>3. KernelTypeOK'
    BY <1>1, <2>1, <2>2 DEF KernelTypeOK, SwitchType, Pcs, Outcomes
  <2>4. ShapeInv' /\ InstalledInv' /\ KeptInv'
    BY <1>1, <2>1, <2>2, KernelsAreNumbers
       DEF KernelInv, ShapeInv, InstalledInv, KeptInv, SwitchAllOrNothing, SameOperands
  <2>5. hostKind' # "commit" => KnownInv'
    <3> SUFFICES ASSUME hostKind # "commit" PROVE KnownInv'
      BY <1>1
    <3>1. \A k \in Kernels : versions'[k] \in {k, NoKernel, Damaged}
      BY <2>2 DEF KernelInv, KnownInv
    <3>2. \A k \in Kernels : versions[k] # Damaged => versions'[k] # Damaged
      BY <2>2, KernelsAreNumbers
    <3> QED BY <1>1, <2>1, <3>1, <3>2, TypeFacts DEF KernelInv, KnownInv, KernelOrNone
  <2> QED BY <2>3, <2>4, <2>5 DEF KernelInv
<1> QED BY <1>2, <1>3 DEF InstallResolved

LEMMA ReadReplacedKeeps == ASSUME KernelInv, ReadReplaced PROVE KernelInv'
<1>1. /\ KernelTypeOK /\ switch.pc = "activate" /\ switch.kind # "start" /\ switch.doomed = {}
      /\ switch.target \in Kernels /\ kernelFaults' \in 0 .. MaxKernelFaults
      /\ UNCHANGED <<hostKind, program, versions, activeKey, previousKey, legacyGone, unit, latest,
                     page, legacyTask, kernelFaults, unnoted, outdated>>
  BY FaultCounts DEF ReadReplaced, KernelInv, ShapeInv
<1>2. CASE ActiveUnreadable
  BY <1>1, <1>2, GiveUpKeeps DEF ReadReplaced
<1>3. CASE ~ActiveUnreadable
  <2>1. switch' = [switch EXCEPT !.replaced = ActiveVersion,
                                 !.pc = IF ActiveVersion = NoKernel THEN "load" ELSE "adopt"]
    BY <1>3 DEF ReadReplaced
  <2>2. ActiveVersion \in KernelOrNone
    BY <1>1, ActiveIsKernel
  <2>3. /\ switch' \in SwitchType /\ switch'.target = switch.target /\ switch'.doomed = {}
        /\ switch'.kind = switch.kind /\ switch'.replaced = ActiveVersion
        /\ switch'.pc = IF ActiveVersion = NoKernel THEN "load" ELSE "adopt"
    BY <1>1, <2>1, <2>2, TypeFacts DEF SwitchType, Pcs
  <2>4. KernelTypeOK'
    BY <1>1, <2>3, TypeMoves
  <2>5. ShapeInv' /\ InstalledInv' /\ KeptInv' /\ (hostKind' # "commit" => KnownInv')
    BY <1>1, <2>2, <2>3 DEF KernelInv, ShapeInv, InstalledInv, KeptInv, KnownInv,
       SwitchAllOrNothing, KernelOrNone
  <2> QED BY <2>4, <2>5 DEF KernelInv
<1> QED BY <1>2, <1>3

LEMMA AdoptVersionKeeps == ASSUME KernelInv, AdoptVersion PROVE KernelInv'
<1>1. /\ KernelTypeOK /\ switch.pc = "adopt" /\ switch.doomed = {}
      /\ switch.target \in Kernels /\ switch.replaced \in Kernels
      /\ kernelFaults' \in 0 .. MaxKernelFaults
      /\ UNCHANGED <<hostKind, program, activeKey, previousKey, legacyGone, unit, latest,
                     page, legacyTask, kernelFaults, unnoted, outdated>>
  BY FaultCounts DEF AdoptVersion, KernelInv, ShapeInv
<1>2. CASE ~CanAdopt(switch.replaced)
  BY <1>1, <1>2, GiveUpKeeps DEF AdoptVersion
<1>3. CASE CanAdopt(switch.replaced)
  <2>1. switch' \in SwitchType /\ switch'.pc = "adopted" /\ SameOperands(switch')
    BY <1>1, <1>3, StepMoves, TypeFacts DEF AdoptVersion, Pcs
  <2>2. /\ program \in Kernels /\ versions' \in [Kernels -> Kernels \union {NoKernel, Damaged}]
        /\ versions'[switch.replaced] = program
        /\ \A k \in Kernels : versions[k] # NoKernel => versions'[k] = versions[k]
        /\ \A k \in Kernels \ {switch.replaced} : versions'[k] = versions[k]
    BY <1>1, <1>3, AdoptedStores DEF AdoptVersion
  <2>3. KernelTypeOK'
    BY <1>1, <2>1, <2>2 DEF KernelTypeOK, SwitchType, Pcs, Outcomes
  <2>4. ShapeInv' /\ InstalledInv' /\ KeptInv'
    BY <1>1, <2>1, <2>2, KernelsAreNumbers
       DEF KernelInv, ShapeInv, InstalledInv, KeptInv, SwitchAllOrNothing, SameOperands
  <2>5. hostKind' # "commit" => KnownInv'
    <3> SUFFICES ASSUME hostKind # "commit" PROVE KnownInv'
      BY <1>1
    <3>1. \/ versions[switch.replaced] = program
          \/ versions[switch.replaced] = NoKernel /\ switch.replaced = program
      BY <1>3 DEF CanAdopt, Tracked, BundledMatches
    <3>2. \A k \in Kernels : versions'[k] \in {k, NoKernel, Damaged}
      BY <1>1, <2>2, <3>1, KernelsAreNumbers DEF KernelInv, KnownInv
    <3>3. \A k \in Kernels : versions[k] # Damaged => versions'[k] # Damaged
      BY <1>1, <2>2, KernelsAreNumbers
    <3> QED BY <1>1, <2>1, <2>2, <3>2, <3>3, TypeFacts, KernelsAreNumbers
      DEF KernelInv, KnownInv, KernelOrNone
  <2> QED BY <2>3, <2>4, <2>5 DEF KernelInv
<1> QED BY <1>2, <1>3

LEMMA AdoptRecordKeeps == ASSUME KernelInv, AdoptRecord PROVE KernelInv'
<1>1. /\ KernelTypeOK /\ switch.pc = "adopted" /\ switch.doomed = {} /\ switch \in SwitchType
      /\ switch.target \in Kernels /\ switch.replaced \in Kernels
      /\ versions[switch.replaced] = program /\ program \in Kernels
      /\ switch.kind = "start" => switch.target = switch.replaced /\ page.pc = "idle"
      /\ UNCHANGED <<hostKind, program, versions, previousKey, legacyGone, unit, latest,
                     page, legacyTask, unnoted>>
  BY TypeFacts DEF AdoptRecord, KernelInv, ShapeInv, InstalledInv
<1>2. kernelFaults' \in 0 .. MaxKernelFaults
  BY <1>1, FaultCounts DEF AdoptRecord
<1>3. CASE /\ UNCHANGED <<activeKey, outdated>> /\ switch.kind = "start"
           /\ switch' = [switch EXCEPT !.pc = "refused", !.outcome = "failed"]
  <2>1. /\ switch' \in SwitchType /\ switch'.pc = "refused" /\ switch'.outcome = "failed"
        /\ switch'.kind = "start" /\ switch'.doomed = {}
    BY <1>1, <1>3 DEF SwitchType, Pcs, Outcomes
  <2>2. KernelTypeOK'
    BY <1>1, <1>2, <1>3, <2>1, TypeMoves
  <2>3. ShapeInv' /\ InstalledInv' /\ KeptInv' /\ (hostKind' # "commit" => KnownInv')
    BY <1>1, <1>3, <2>1 DEF KernelInv, ShapeInv, InstalledInv, KeptInv, KnownInv,
       SwitchAllOrNothing
  <2> QED BY <2>2, <2>3 DEF KernelInv
<1>4. CASE UNCHANGED <<activeKey, outdated>> /\ switch.kind # "start" /\ EndAs("failed")
  <2>1. hostKind # "commit" => program = NoKernel \/ versions[program] # Damaged
    BY DEF KernelInv, KnownInv
  <2> QED BY <1>1, <1>2, <1>4, <2>1, EndedKeeps, TypeFacts DEF Outcomes
<1>5. CASE /\ activeKey' = switch.replaced /\ outdated' = FALSE
           /\ switch.kind # "start" /\ Step("load")
  <2>1. switch' \in SwitchType /\ switch'.pc = "load" /\ SameOperands(switch')
    BY <1>1, <1>5, StepMoves DEF Pcs
  <2>2. KernelTypeOK'
    <3>1. activeKey' \in KernelOrNone /\ outdated' \in BOOLEAN
      BY <1>1, <1>5 DEF KernelOrNone
    <3> QED BY <1>1, <1>2, <2>1, <3>1, TypeRecords
  <2>3. ShapeInv' /\ InstalledInv' /\ KeptInv'
    BY <1>1, <1>5, <2>1 DEF KernelInv, ShapeInv, InstalledInv, KeptInv, SwitchAllOrNothing,
       SameOperands
  <2>4. hostKind' # "commit" => KnownInv'
    BY <1>1, <1>5, <2>1, KernelsAreNumbers DEF KernelInv, KnownInv
  <2> QED BY <2>2, <2>3, <2>4 DEF KernelInv
<1>6. ASSUME activeKey' = switch.replaced, outdated' = FALSE, switch.kind = "start",
             NEW keep, ToPrune(keep),
             LET others == {k \in Kernels : StoredWhole(k) /\ k # switch.replaced}
             IN  keep \in IF previousKey \in others THEN {previousKey}
                          ELSE IF others = {} THEN {NoKernel} ELSE others
      PROVE  KernelInv'
  <2>1. /\ WholeOrNone(keep) /\ keep # switch.target /\ keep \in KernelOrNone
        /\ previousKey \in Kernels /\ StoredWhole(previousKey) =>
             previousKey \in {switch.target, keep}
    BY <1>1, <1>6, KernelsAreNumbers DEF KernelOrNone
  <2>2. /\ switch' \in SwitchType /\ switch'.pc = "prune" /\ switch'.keep = keep
        /\ switch'.kind = "start" /\ switch'.target = switch.target
        /\ switch'.running = switch.running
        /\ switch'.doomed = {k \in Kernels : StoredWhole(k) /\ k \notin {switch.target, keep}}
    BY <1>1, <1>6, <2>1, ToPruneLists
  <2> HIDE <1>6
  <2>3. /\ activeKey' = switch.target /\ outdated' = FALSE /\ page.pc = "idle"
        /\ switch.target = switch.replaced /\ switch.running = FALSE
    BY <1>1, <1>6 DEF KernelInv, ShapeInv
  <2>4. KernelTypeOK'
    <3>1. activeKey' \in KernelOrNone /\ outdated' \in BOOLEAN
      BY <1>1, <2>3, TypeFacts
    <3> QED BY <1>1, <1>2, <2>2, <3>1, TypeRecords
  <2>5. ShapeInv'
    BY <1>1, <2>2, <2>3 DEF KernelInv, ShapeInv
  <2>6. InstalledInv'
    BY <1>1, <2>2, <2>3 DEF InstalledInv, SwitchAllOrNothing
  <2>7. KeptInv'
    BY <1>1, <2>1, <2>2 DEF KernelInv, KeptInv
  <2>8. hostKind' # "commit" => KnownInv'
    BY <1>1, <2>2, <2>3, KernelsAreNumbers DEF KernelInv, KnownInv
  <2> QED BY <2>4, <2>5, <2>6, <2>7, <2>8 DEF KernelInv
<1> QED BY <1>3, <1>4, <1>5, <1>6 DEF AdoptRecord

LEMMA LoadTargetKeeps == ASSUME KernelInv, LoadTarget PROVE KernelInv'
<1>1. /\ KernelTypeOK /\ switch.pc = "load" /\ switch.doomed = {} /\ switch \in SwitchType
      /\ switch.target \in Kernels /\ switch.kind # "start"
      /\ program \in KernelOrNone /\ unit.on \in BOOLEAN
      /\ UNCHANGED <<hostKind, program, versions, activeKey, previousKey, legacyGone, unit, latest,
                     page, legacyTask, kernelFaults, unnoted, outdated>>
  BY TypeFacts DEF LoadTarget, KernelInv, ShapeInv
<1>2. kernelFaults' \in 0 .. MaxKernelFaults
  BY <1>1, FaultCounts
<1>3. CASE GiveUp
  BY <1>1, <1>2, <1>3, GiveUpKeeps
<1>4. CASE /\ StoredWhole(switch.target)
           /\ switch' = [switch EXCEPT !.pc = "write", !.current = program, !.running = unit.on]
  <2>1. /\ switch' \in SwitchType /\ switch'.pc = "write" /\ switch'.current = program
        /\ switch'.kind = switch.kind /\ switch'.target = switch.target
        /\ switch'.replaced = switch.replaced /\ switch'.doomed = {}
    BY <1>1, <1>4 DEF SwitchType, Pcs
  <2>2. KernelTypeOK'
    BY <1>1, <1>2, <2>1, TypeMoves
  <2>3. ShapeInv' /\ InstalledInv' /\ KeptInv' /\ (hostKind' # "commit" => KnownInv')
    BY <1>1, <1>4, <2>1 DEF KernelInv, ShapeInv, InstalledInv, KeptInv, KnownInv,
       SwitchAllOrNothing
  <2> QED BY <2>2, <2>3 DEF KernelInv
<1> QED BY <1>3, <1>4 DEF LoadTarget

LEMMA WriteBinaryKeeps == ASSUME KernelInv, WriteBinary PROVE KernelInv'
<1>1. /\ KernelTypeOK /\ switch.pc = "write" /\ switch.doomed = {} /\ switch \in SwitchType
      /\ switch.target \in Kernels /\ switch.kind # "start" /\ StoredWhole(switch.target)
      /\ UNCHANGED <<hostKind, versions, activeKey, previousKey, legacyGone, unit, latest,
                     page, legacyTask, unnoted, outdated>>
  BY TypeFacts DEF WriteBinary, KernelInv, ShapeInv, InstalledInv
<1>2. kernelFaults' \in 0 .. MaxKernelFaults
  BY <1>1, FaultCounts DEF WriteBinary
<1>3. CASE GiveUp /\ UNCHANGED program
  BY <1>1, <1>2, <1>3, GiveUpKeeps
<1>4. ASSUME program' = versions[switch.target]
      PROVE  /\ program' \in Kernels
             /\ hostKind # "commit" => program' = NoKernel \/ versions[program'] # Damaged
  BY <1>1, <1>4, KernelsAreNumbers DEF KernelInv, KnownInv
<1>5. CASE /\ program' = versions[switch.target]
           /\ Step(IF switch.running THEN "restart" ELSE "record")
  <2>1. /\ switch' \in SwitchType /\ SameOperands(switch')
        /\ switch'.pc = IF switch.running THEN "restart" ELSE "record"
    BY <1>1, <1>5, StepMoves DEF Pcs
  <2>2. KernelTypeOK'
    BY <1>1, <1>2, <1>4, <1>5, <2>1 DEF KernelTypeOK, SwitchType, Pcs, Outcomes, KernelOrNone
  <2>3. ShapeInv' /\ InstalledInv' /\ KeptInv'
    BY <1>1, <1>4, <1>5, <2>1 DEF KernelInv, ShapeInv, InstalledInv, KeptInv,
       SwitchAllOrNothing,
       SameOperands
  <2>4. hostKind' # "commit" => KnownInv'
    BY <1>1, <1>4, <1>5, <2>1 DEF KernelInv, KnownInv, SameOperands
  <2> QED BY <2>2, <2>3, <2>4 DEF KernelInv
<1>6. CASE program' = versions[switch.target] /\ EndAs("unsynced")
  BY <1>1, <1>2, <1>4, <1>6, EndedKeeps, TypeFacts DEF Outcomes, KernelOrNone
<1> QED BY <1>3, <1>5, <1>6 DEF WriteBinary

LEMMA RestartTargetKeeps == ASSUME KernelInv, RestartTarget PROVE KernelInv'
<1>1. /\ KernelTypeOK /\ switch.pc = "restart" /\ switch.doomed = {} /\ switch \in SwitchType
      /\ kernelFaults' \in 0 .. MaxKernelFaults
      /\ UNCHANGED <<hostKind, program, versions, activeKey, previousKey, legacyGone, latest,
                     page, legacyTask, unnoted, outdated>>
  BY TypeFacts, FaultCounts DEF RestartTarget, KernelInv, ShapeInv
<1>2. /\ unit' \in [on : BOOLEAN, runs : KernelOrNone]
      /\ \/ unit'.runs = program /\ Step("health")
         \/ Step("restore")
  BY <1>1, LaunchedRuns, TypeFacts DEF RestartTarget
<1>3. /\ switch' \in SwitchType /\ SameOperands(switch')
      /\ switch'.pc = "restore" \/ (unit'.runs = program /\ switch'.pc = "health")
  BY <1>1, <1>2, StepMoves DEF Pcs
<1>4. KernelTypeOK'
  BY <1>1, <1>2, <1>3 DEF KernelTypeOK, SwitchType, Pcs, Outcomes
<1>5. ShapeInv' /\ InstalledInv' /\ KeptInv'
  BY <1>1, <1>3 DEF KernelInv, ShapeInv, InstalledInv, KeptInv, SwitchAllOrNothing, SameOperands
<1>6. hostKind' # "commit" => KnownInv'
  BY <1>1, <1>3 DEF KernelInv, KnownInv, SameOperands
<1> QED BY <1>4, <1>5, <1>6 DEF KernelInv

LEMMA CheckTargetKeeps == ASSUME KernelInv, CheckTarget PROVE KernelInv'
<1>1. /\ KernelTypeOK /\ switch.pc = "health" /\ switch.doomed = {} /\ switch \in SwitchType
      /\ switch.kind # "start"
      /\ UNCHANGED <<hostKind, program, versions, activeKey, previousKey, legacyGone, unit, latest,
                     page, legacyTask, unnoted, outdated>>
  BY TypeFacts DEF CheckTarget, KernelInv, ShapeInv
<1>2. kernelFaults' \in 0 .. MaxKernelFaults
  BY <1>1, FaultCounts DEF CheckTarget
<1>3. CASE EndAs("unsynced")
  <2>1. hostKind # "commit" => program = NoKernel \/ versions[program] # Damaged
    BY DEF KernelInv, KnownInv
  <2> QED BY <1>1, <1>2, <1>3, <2>1, EndedKeeps, TypeFacts DEF Outcomes
<1>4. CASE Step("record") \/ Step("restore")
  <2>1. /\ switch' \in SwitchType /\ SameOperands(switch') /\ switch'.pc \in {"record", "restore"}
    BY <1>1, <1>4, StepMoves DEF Pcs
  <2>2. KernelTypeOK'
    BY <1>1, <1>2, <2>1, TypeMoves
  <2>3. ShapeInv' /\ InstalledInv' /\ KeptInv'
    BY <1>1, <2>1 DEF KernelInv, ShapeInv, InstalledInv, KeptInv, SwitchAllOrNothing,
       SameOperands
  <2>4. hostKind' # "commit" => KnownInv'
    BY <1>1, <2>1 DEF KernelInv, KnownInv, SameOperands
  <2> QED BY <2>2, <2>3, <2>4 DEF KernelInv
<1> QED BY <1>3, <1>4 DEF CheckTarget

LEMMA RestoreBinaryKeeps == ASSUME KernelInv, RestoreBinary PROVE KernelInv'
<1>1. /\ KernelTypeOK /\ switch.pc = "restore" /\ switch.doomed = {} /\ switch \in SwitchType
      /\ switch.kind # "start"
      /\ UNCHANGED <<hostKind, versions, activeKey, previousKey, legacyGone, unit, latest,
                     page, legacyTask, unnoted, outdated>>
  BY TypeFacts DEF RestoreBinary, KernelInv, ShapeInv
<1>2. kernelFaults' \in 0 .. MaxKernelFaults
  BY <1>1, FaultCounts DEF RestoreBinary
<1>3. /\ program' \in {program, switch.current} /\ program' \in KernelOrNone
      /\ hostKind # "commit" => program' = NoKernel \/ versions[program'] # Damaged
  BY <1>1, TypeFacts DEF RestoreBinary, KernelInv, KnownInv
<1>4. CASE EndAs("broken")
  BY <1>1, <1>2, <1>3, <1>4, EndedKeeps, TypeFacts DEF Outcomes
<1>5. CASE program' = switch.current /\ switch.running /\ Step("restartBack")
  <2>1. switch' \in SwitchType /\ SameOperands(switch') /\ switch'.pc = "restartBack"
    BY <1>1, <1>5, StepMoves DEF Pcs
  <2>2. KernelTypeOK'
    BY <1>1, <1>2, <1>3, <2>1 DEF KernelTypeOK, SwitchType, Pcs, Outcomes
  <2>3. ShapeInv' /\ InstalledInv' /\ KeptInv'
    BY <1>1, <1>5, <2>1 DEF KernelInv, ShapeInv, InstalledInv, KeptInv, SwitchAllOrNothing,
       SameOperands
  <2>4. hostKind' # "commit" => KnownInv'
    BY <1>1, <1>3, <2>1 DEF KernelInv, KnownInv
  <2> QED BY <2>2, <2>3, <2>4 DEF KernelInv
<1>6. CASE program' = switch.current /\ ~switch.running /\ EndAs("restored")
  <2>1. /\ switch' \in SwitchType /\ switch'.pc = "ended" /\ switch'.outcome = "restored"
        /\ switch'.doomed = {} /\ switch'.kind # "start" /\ switch'.current = switch.current
        /\ switch'.running = switch.running
    BY <1>1, <1>6, EndAsEnds DEF Outcomes
  <2>2. KernelTypeOK'
    BY <1>1, <1>2, <1>3, <2>1 DEF KernelTypeOK, SwitchType, Pcs, Outcomes
  <2>3. ShapeInv' /\ InstalledInv' /\ KeptInv'
    BY <1>1, <1>6, <2>1 DEF KernelInv, ShapeInv, InstalledInv, KeptInv, SwitchAllOrNothing
  <2>4. hostKind' # "commit" => KnownInv'
    BY <1>1, <1>3, <2>1 DEF KernelInv, KnownInv
  <2> QED BY <2>2, <2>3, <2>4 DEF KernelInv
<1> QED BY <1>4, <1>5, <1>6 DEF RestoreBinary

\* A switch whose binary was put back ends.
LEMMA RestoredKeeps ==
  ASSUME KernelInv, switch.kind # "start", EndAs("restored"), program = switch.current,
         unit' \in [on : BOOLEAN, runs : KernelOrNone],
         switch.running /\ unit'.on => unit'.runs = program,
         kernelFaults' \in 0 .. MaxKernelFaults,
         UNCHANGED <<hostKind, program, versions, activeKey, previousKey, legacyGone, latest,
                     page, legacyTask, unnoted, outdated>>
  PROVE  KernelInv'
<1>1. /\ KernelTypeOK /\ switch' \in SwitchType /\ switch'.pc = "ended"
      /\ switch'.outcome = "restored" /\ switch'.doomed = {} /\ switch'.kind # "start"
      /\ switch'.current = switch.current /\ switch'.running = switch.running
  BY TypeFacts, EndAsEnds DEF KernelInv, Outcomes
<1>2. KernelTypeOK'
  BY <1>1 DEF KernelTypeOK, SwitchType, Pcs, Outcomes
<1>3. ShapeInv' /\ InstalledInv' /\ KeptInv' /\ (hostKind' # "commit" => KnownInv')
  BY <1>1 DEF KernelInv, ShapeInv, InstalledInv, KeptInv, KnownInv, SwitchAllOrNothing
<1> QED BY <1>2, <1>3 DEF KernelInv

LEMMA RestartBackKeeps == ASSUME KernelInv, RestartBack PROVE KernelInv'
<1>1. /\ KernelTypeOK /\ switch.pc = "restartBack" /\ switch.doomed = {} /\ switch \in SwitchType
      /\ switch.kind # "start" /\ program = switch.current
      /\ kernelFaults' \in 0 .. MaxKernelFaults
      /\ UNCHANGED <<hostKind, program, versions, activeKey, previousKey, legacyGone, latest,
                     page, legacyTask, unnoted, outdated>>
  BY TypeFacts, FaultCounts DEF RestartBack, KernelInv, ShapeInv, InstalledInv
<1>2. unit' \in [on : BOOLEAN, runs : KernelOrNone]
  BY <1>1, LaunchedRuns, TypeFacts DEF RestartBack
<1>3. CASE EndAs("broken")
  <2>1. hostKind # "commit" => program = NoKernel \/ versions[program] # Damaged
    BY DEF KernelInv, KnownInv
  <2> QED BY <1>1, <1>2, <1>3, <2>1, EndedKeeps, TypeFacts DEF Outcomes
<1>4. CASE unit' = Launched /\ EndAs("restored")
  BY <1>1, <1>2, <1>4, LaunchedRuns, RestoredKeeps
<1>5. CASE unit' = Launched /\ Step("healthBack")
  <2>1. switch' \in SwitchType /\ SameOperands(switch') /\ switch'.pc = "healthBack"
    BY <1>1, <1>5, StepMoves DEF Pcs
  <2>2. KernelTypeOK'
    BY <1>1, <1>2, <2>1 DEF KernelTypeOK, SwitchType, Pcs, Outcomes
  <2>3. unit'.runs = program
    BY <1>1, <1>5, LaunchedRuns
  <2>4. ShapeInv' /\ InstalledInv' /\ KeptInv' /\ (hostKind' # "commit" => KnownInv')
    BY <1>1, <2>1, <2>3 DEF KernelInv, ShapeInv, InstalledInv, KeptInv, KnownInv,
       SwitchAllOrNothing, SameOperands
  <2> QED BY <2>2, <2>4 DEF KernelInv
<1> QED BY <1>3, <1>4, <1>5 DEF RestartBack

LEMMA CheckBackKeeps == ASSUME KernelInv, CheckBack PROVE KernelInv'
<1>1. /\ KernelTypeOK /\ switch.pc = "healthBack" /\ switch.kind # "start"
      /\ program = switch.current /\ (switch.running /\ unit.on => unit.runs = program)
      /\ kernelFaults' \in 0 .. MaxKernelFaults
      /\ UNCHANGED <<hostKind, program, versions, activeKey, previousKey, legacyGone, unit, latest,
                     page, legacyTask, unnoted, outdated>>
  BY FaultCounts DEF CheckBack, KernelInv, ShapeInv, InstalledInv
<1>2. CASE EndAs("broken")
  <2>1. hostKind # "commit" => program = NoKernel \/ versions[program] # Damaged
    BY DEF KernelInv, KnownInv
  <2> QED BY <1>1, <1>2, <2>1, EndedKeeps, TypeFacts DEF Outcomes
<1>3. CASE EndAs("restored")
  BY <1>1, <1>3, RestoredKeeps, TypeFacts
<1> QED BY <1>2, <1>3 DEF CheckBack

LEMMA RecordActiveKeeps == ASSUME KernelInv, RecordActive PROVE KernelInv'
<1>1. /\ KernelTypeOK /\ switch.pc = "record" /\ switch.doomed = {} /\ switch \in SwitchType
      /\ switch.kind # "start" /\ switch.target \in Kernels
      /\ program \in Kernels /\ program = versions[switch.target]
      /\ UNCHANGED <<hostKind, program, versions, previousKey, legacyGone, unit, latest,
                     page, legacyTask, unnoted>>
  BY TypeFacts DEF RecordActive, KernelInv, ShapeInv, InstalledInv
<1>2. kernelFaults' \in 0 .. MaxKernelFaults
  BY <1>1, FaultCounts DEF RecordActive
<1>3. CASE UNCHANGED <<activeKey, outdated>> /\ Step("restore")
  <2>1. switch' \in SwitchType /\ SameOperands(switch') /\ switch'.pc = "restore"
    BY <1>1, <1>3, StepMoves DEF Pcs
  <2>2. KernelTypeOK'
    BY <1>1, <1>2, <1>3, <2>1, TypeMoves
  <2>3. ShapeInv' /\ InstalledInv' /\ KeptInv' /\ (hostKind' # "commit" => KnownInv')
    BY <1>1, <1>3, <2>1 DEF KernelInv, ShapeInv, InstalledInv, KeptInv, KnownInv,
       SwitchAllOrNothing, SameOperands
  <2> QED BY <2>2, <2>3 DEF KernelInv
<1>4. CASE /\ activeKey' = switch.target /\ outdated' = FALSE
           /\ switch' = [switch EXCEPT !.pc = "remember", !.current = NoKernel]
  <2>1. /\ switch' \in SwitchType /\ switch'.pc = "remember" /\ switch'.doomed = {}
        /\ switch'.kind = switch.kind /\ switch'.target = switch.target
        /\ switch'.replaced = switch.replaced /\ switch'.running = switch.running
    BY <1>1, <1>4 DEF SwitchType, Pcs, KernelOrNone
  <2>2. activeKey' = switch.target /\ outdated' \in BOOLEAN
    BY <1>4
  <2>3. KernelTypeOK'
    BY <1>1, <1>2, <2>1, <2>2 DEF KernelTypeOK, SwitchType, Pcs, Outcomes, KernelOrNone
  <2>4. ShapeInv' /\ InstalledInv' /\ KeptInv'
    BY <1>1, <2>1 DEF KernelInv, ShapeInv, InstalledInv, KeptInv, SwitchAllOrNothing
  <2>5. hostKind' # "commit" => KnownInv'
    BY <1>1, <2>1, <2>2, KernelsAreNumbers DEF KernelInv, KnownInv
  <2> QED BY <2>3, <2>4, <2>5 DEF KernelInv
<1> QED BY <1>3, <1>4 DEF RecordActive

\* The clean-up is listed, with the target installed and what there is to go back to kept.
LEMMA ListedKeeps ==
  ASSUME KernelInv, NEW keep \in KernelOrNone, ToPrune(keep), switch.kind # "start",
         switch.pc \in {"remember", "note"}, unnoted \/ WholeOrNone(keep),
         unnoted \/ keep = NoKernel \/ previousKey = keep,
         unnoted \/ previousKey \in {switch.target, keep, NoKernel},
         legacyGone' \in BOOLEAN, kernelFaults' \in 0 .. MaxKernelFaults,
         UNCHANGED <<hostKind, program, versions, activeKey, previousKey, unit, latest,
                     page, legacyTask, unnoted, outdated>>
  PROVE  KernelInv'
<1>1. /\ KernelTypeOK /\ switch.target \in Kernels
      /\ switch.running /\ unit.on => unit.runs = program
      /\ program \in Kernels /\ program = versions[switch.target]
  BY DEF KernelInv, ShapeInv, InstalledInv
<1>2. /\ switch' \in SwitchType /\ switch'.pc = "prune" /\ switch'.keep = keep
      /\ switch'.kind = switch.kind /\ switch'.target = switch.target
      /\ switch'.running = switch.running
      /\ switch'.doomed = {k \in Kernels : StoredWhole(k) /\ k \notin {switch.target, keep}}
  BY <1>1, ToPruneLists
<1>3. KernelTypeOK'
  BY <1>1, <1>2 DEF KernelTypeOK, SwitchType, Pcs, Outcomes
<1>4. ShapeInv' /\ InstalledInv'
  BY <1>1, <1>2 DEF KernelInv, ShapeInv, InstalledInv, SwitchAllOrNothing
<1>5. KeptInv'
  BY <1>1, <1>2, KernelsAreNumbers DEF KernelInv, KeptInv
<1>6. hostKind' # "commit" => KnownInv'
  BY <1>1, <1>2 DEF KernelInv, KnownInv
<1> QED BY <1>3, <1>4, <1>5, <1>6 DEF KernelInv

LEMMA RememberReplacedKeeps == ASSUME KernelInv, RememberReplaced PROVE KernelInv'
<1>1. /\ KernelTypeOK /\ switch.pc = "remember" /\ switch.doomed = {} /\ switch \in SwitchType
      /\ switch.kind # "start" /\ switch.target \in Kernels
      /\ switch.running /\ unit.on => unit.runs = program
      /\ WholeOrNone(switch.replaced) /\ (unnoted \/ WholeOrNone(previousKey))
      /\ UNCHANGED <<hostKind, program, versions, activeKey, legacyGone, unit, latest,
                     page, legacyTask, outdated>>
  BY TypeFacts DEF RememberReplaced, KernelInv, ShapeInv, InstalledInv, KeptInv
<1>2. kernelFaults' \in 0 .. MaxKernelFaults
  BY <1>1, FaultCounts DEF RememberReplaced
<1>3. CASE switch.replaced \in {NoKernel, switch.target}
  <2> DEFINE keep == PreviousOf(switch.target)
  <2>1. (keep = NoKernel /\ previousKey = switch.target) \/ keep = previousKey
    BY DEF PreviousOf
  <2>2. keep \in KernelOrNone
    BY <1>1, <2>1, TypeFacts DEF KernelOrNone
  <2>3. ToPrune(keep) /\ UNCHANGED <<previousKey, unnoted, legacyGone>>
    BY <1>1, <1>3 DEF RememberReplaced
  <2> HIDE DEF keep
  <2> QED BY <1>1, <1>2, <2>1, <2>2, <2>3, ListedKeeps, TypeFacts
<1>4. CASE switch.replaced \notin {NoKernel, switch.target}
  <2>1. /\ switch' = [switch EXCEPT !.pc = "note", !.keep = switch.replaced]
        /\ \/ previousKey' = switch.replaced /\ UNCHANGED unnoted
           \/ UNCHANGED previousKey /\ unnoted' = TRUE
    BY <1>4 DEF RememberReplaced
  <2>2. /\ switch' \in SwitchType /\ switch'.pc = "note" /\ switch'.doomed = {}
        /\ switch'.kind = switch.kind /\ switch'.target = switch.target
        /\ switch'.running = switch.running /\ switch'.keep = switch.replaced
    BY <1>1, <2>1, TypeFacts DEF SwitchType, Pcs
  <2>3. /\ previousKey' \in KernelOrNone /\ unnoted' \in BOOLEAN
        /\ unnoted' \/ previousKey' = switch.replaced
    BY <1>1, <2>1, TypeFacts
  <2>4. KernelTypeOK'
    BY <1>1, <1>2, <2>2, <2>3 DEF KernelTypeOK, SwitchType, Pcs, Outcomes
  <2>5. ShapeInv' /\ InstalledInv'
    BY <1>1, <2>2 DEF KernelInv, ShapeInv, InstalledInv, SwitchAllOrNothing
  <2>6. KeptInv'
    BY <1>1, <1>4, <2>2, <2>3 DEF KernelInv, KeptInv
  <2>7. hostKind' # "commit" => KnownInv'
    BY <1>1, <2>2 DEF KernelInv, KnownInv
  <2> QED BY <2>4, <2>5, <2>6, <2>7 DEF KernelInv
<1> QED BY <1>3, <1>4

LEMMA NoteLegacyKeeps == ASSUME KernelInv, NoteLegacy PROVE KernelInv'
<1>1. /\ KernelTypeOK /\ switch.pc = "note" /\ switch.kind # "start"
      /\ WholeOrNone(switch.keep) /\ (unnoted \/ previousKey = switch.keep)
      /\ switch.keep \in KernelOrNone /\ ToPrune(switch.keep)
      /\ UNCHANGED <<hostKind, program, versions, activeKey, previousKey, unit, latest,
                     page, legacyTask, unnoted, outdated>>
  BY TypeFacts DEF NoteLegacy, KernelInv, ShapeInv, KeptInv
<1>2. legacyGone' \in BOOLEAN
  BY <1>1, TypeFacts DEF NoteLegacy
<1>3. kernelFaults' \in 0 .. MaxKernelFaults
  BY <1>1, FaultCounts DEF NoteLegacy
<1> QED BY <1>1, <1>2, <1>3, ListedKeeps

LEMMA PruneVersionsKeeps == ASSUME KernelInv, PruneVersions PROVE KernelInv'
<1>1. /\ KernelTypeOK /\ switch.pc = "prune" /\ switch \in SwitchType /\ switch.target \in Kernels
      /\ program \in Kernels /\ program = versions[switch.target]
      /\ switch.running /\ unit.on => unit.runs = program
      /\ switch.kind = "start" => page.pc = "idle"
      /\ UNCHANGED <<hostKind, program, activeKey, previousKey, legacyGone, unit, latest,
                     page, unnoted, outdated>>
  BY TypeFacts DEF PruneVersions, KernelInv, ShapeInv, InstalledInv
<1>2. kernelFaults' \in 0 .. MaxKernelFaults
  BY <1>1, FaultCounts DEF PruneVersions
\* What a removal, finished or not, leaves.
<1>3. ASSUME NEW k \in switch.doomed, versions' \in {versions, [versions EXCEPT ![k] = Damaged],
                                                    [versions EXCEPT ![k] = NoKernel]}
      PROVE  /\ versions' \in [Kernels -> Kernels \union {NoKernel, Damaged}]
             /\ versions'[switch.target] = program
             /\ unnoted \/ WholeOrNone(previousKey)'
             /\ WholeOrNone(switch.keep) => switch.keep = NoKernel
                                            \/ (switch.keep \in Kernels /\ versions'[switch.keep] \in Kernels)
             /\ hostKind # "commit" =>
                  /\ \A j \in Kernels : versions'[j] \in {j, NoKernel, Damaged}
                  /\ versions'[program] # Damaged
                  /\ outdated \/ activeKey = NoKernel \/ versions'[activeKey] # Damaged
  <2>1. /\ k \in Kernels /\ k # switch.target /\ k # switch.keep
        /\ unnoted \/ previousKey # k
        /\ hostKind # "commit" => program # k /\ (outdated \/ activeKey # k)
    BY <1>3, DoomedIsNotInUse
  <2>2. /\ versions' \in [Kernels -> Kernels \union {NoKernel, Damaged}]
        /\ \A j \in Kernels : j # k => versions'[j] = versions[j]
        /\ versions'[k] \in {versions[k], NoKernel, Damaged}
    BY <1>1, <1>3, <2>1, TypeFacts
  <2> HIDE <1>3
  <2>3. unnoted \/ WholeOrNone(previousKey)'
    BY <1>1, <2>1, <2>2 DEF KernelInv, KeptInv
  <2>4. ASSUME hostKind # "commit"
        PROVE  /\ \A j \in Kernels : versions'[j] \in {j, NoKernel, Damaged}
               /\ versions'[program] # Damaged
               /\ outdated \/ activeKey = NoKernel \/ versions'[activeKey] # Damaged
    BY <1>1, <2>1, <2>2, <2>4, TypeFacts, KernelsAreNumbers DEF KernelInv, KnownInv,
       KernelOrNone
  <2> QED BY <1>1, <2>1, <2>2, <2>3, <2>4
\* One directory is removed.
<1>4. ASSUME NEW k \in switch.doomed, versions' = [versions EXCEPT ![k] = NoKernel],
             switch' = [switch EXCEPT !.doomed = @ \ {k}], UNCHANGED legacyTask
      PROVE  KernelInv'
  <2>1. /\ switch' \in SwitchType /\ switch'.pc = "prune" /\ switch'.keep = switch.keep
        /\ switch'.kind = switch.kind /\ switch'.target = switch.target
        /\ switch'.running = switch.running /\ switch'.doomed \subseteq switch.doomed
    BY <1>1, <1>4 DEF SwitchType
  <2>2. KernelTypeOK'
    BY <1>1, <1>2, <1>3, <1>4, <2>1 DEF KernelTypeOK, SwitchType, Pcs, Outcomes
  <2>3. ShapeInv' /\ InstalledInv'
    BY <1>1, <1>3, <1>4, <2>1 DEF KernelInv, ShapeInv, InstalledInv, SwitchAllOrNothing
  <2>4. KeptInv'
    BY <1>1, <1>3, <1>4, <2>1 DEF KernelInv, KeptInv
  <2>5. hostKind' # "commit" => KnownInv'
    BY <1>1, <1>3, <1>4, <2>1 DEF KernelInv, KnownInv
  <2> QED BY <2>2, <2>3, <2>4, <2>5 DEF KernelInv
\* The clean-up ends, with a directory half removed or with all gone.
<1>5. ASSUME /\ versions' \in [Kernels -> Kernels \union {NoKernel, Damaged}]
             /\ versions'[switch.target] = program
             /\ unnoted \/ WholeOrNone(previousKey)'
             /\ WholeOrNone(switch.keep) => switch.keep = NoKernel
                                            \/ (switch.keep \in Kernels /\ versions'[switch.keep] \in Kernels)
             /\ hostKind # "commit" =>
                  /\ \A j \in Kernels : versions'[j] \in {j, NoKernel, Damaged}
                  /\ versions'[program] # Damaged
                  /\ outdated \/ activeKey = NoKernel \/ versions'[activeKey] # Damaged
      PROVE  /\ switch.kind # "start" /\ EndAs("done") /\ UNCHANGED legacyTask => KernelInv'
             /\ switch.kind = "start" /\ switch' = NoSwitch /\ legacyTask' = "due" => KernelInv'
             /\ switch.kind = "start" /\ switch.doomed = {} /\ Step("settle")
                /\ UNCHANGED legacyTask => KernelInv'
  <2>1. ASSUME switch.kind # "start", EndAs("done"), UNCHANGED legacyTask PROVE KernelInv'
    <3>1. /\ switch' \in SwitchType /\ switch'.pc = "ended" /\ switch'.outcome = "done"
          /\ switch'.kind # "start" /\ switch'.target = switch.target /\ switch'.doomed = {}
          /\ switch'.running = switch.running /\ switch'.keep = switch.keep
      BY <1>1, <2>1, EndAsEnds DEF Outcomes
    <3>2. KernelTypeOK'
      BY <1>1, <1>2, <1>5, <2>1, <3>1 DEF KernelTypeOK, SwitchType, Pcs, Outcomes
    <3>3. ShapeInv' /\ InstalledInv'
      BY <1>1, <1>5, <3>1 DEF KernelInv, ShapeInv, InstalledInv, SwitchAllOrNothing
    <3>4. KeptInv'
      BY <1>1, <1>5, <2>1, <3>1 DEF KernelInv, KeptInv
    <3>5. hostKind' # "commit" => KnownInv'
      BY <1>1, <1>5, <3>1 DEF KnownInv
    <3> QED BY <3>2, <3>3, <3>4, <3>5 DEF KernelInv
  <2>2. ASSUME switch.kind = "start", switch' = NoSwitch, legacyTask' = "due" PROVE KernelInv'
    <3>1. KernelTypeOK'
      BY <1>1, <1>2, <1>5, <2>2, FixedSwitches DEF KernelTypeOK, SwitchType, Pcs, Outcomes
    <3>2. ShapeInv' /\ InstalledInv' /\ KeptInv' /\ (hostKind' # "commit" => KnownInv')
      BY <1>1, <1>5, <2>2, FixedSwitches DEF KernelInv, ShapeInv, InstalledInv, KeptInv,
         KnownInv,
         SwitchAllOrNothing
    <3> QED BY <3>1, <3>2 DEF KernelInv
  <2>3. ASSUME switch.kind = "start", switch.doomed = {}, Step("settle"), UNCHANGED legacyTask
        PROVE  KernelInv'
    <3>1. switch' \in SwitchType /\ SameOperands(switch') /\ switch'.pc = "settle"
      BY <1>1, <2>3, StepMoves DEF Pcs
    <3>2. KernelTypeOK'
      BY <1>1, <1>2, <1>5, <2>3, <3>1 DEF KernelTypeOK, SwitchType, Pcs, Outcomes
    <3>3. ShapeInv' /\ InstalledInv'
      BY <1>1, <1>5, <2>3, <3>1 DEF KernelInv, ShapeInv, InstalledInv, SwitchAllOrNothing,
         SameOperands
    <3>4. KeptInv'
      BY <1>1, <1>5, <2>3, <3>1 DEF KernelInv, KeptInv, SameOperands
    <3>5. hostKind' # "commit" => KnownInv'
      BY <1>1, <1>5, <3>1 DEF KnownInv
    <3> QED BY <3>2, <3>3, <3>4, <3>5 DEF KernelInv
  <2> QED BY <2>1, <2>2, <2>3
<1>6. ASSUME switch.doomed = {}, PruneEnds, UNCHANGED <<versions, legacyTask>> PROVE KernelInv'
  <2>1. /\ unnoted \/ WholeOrNone(previousKey)'
        /\ hostKind # "commit" =>
             /\ \A j \in Kernels : versions'[j] \in {j, NoKernel, Damaged}
             /\ versions'[program] # Damaged
             /\ outdated \/ activeKey = NoKernel \/ versions'[activeKey] # Damaged
    BY <1>1, <1>6, KernelsAreNumbers DEF KernelInv, KeptInv, KnownInv
  <2> QED BY <1>1, <1>5, <1>6, <2>1, TypeFacts DEF PruneEnds
<1>7. ASSUME NEW k \in switch.doomed, versions' \in {versions, [versions EXCEPT ![k] = Damaged]},
             PruneStops
      PROVE  KernelInv'
  BY <1>3, <1>5, <1>7 DEF PruneStops
<1> QED BY <1>1, <1>4, <1>6, <1>7 DEF PruneVersions

LEMMA SettlePreviousKeeps == ASSUME KernelInv, SettlePrevious PROVE KernelInv'
<1>1. /\ KernelTypeOK /\ switch.pc = "settle" /\ switch.kind = "start" /\ page.pc = "idle"
      /\ switch.target \in Kernels /\ StoredWhole(switch.target) /\ WholeOrNone(switch.keep)
      /\ switch' = NoSwitch /\ legacyTask' = "due"
      /\ UNCHANGED <<hostKind, program, versions, activeKey, legacyGone, unit, latest,
                     page, outdated>>
  BY TypeFacts DEF SettlePrevious, KernelInv, ShapeInv, InstalledInv, KeptInv
<1>2. kernelFaults' \in 0 .. MaxKernelFaults
  BY <1>1, FaultCounts DEF SettlePrevious
<1>3. /\ previousKey' \in KernelOrNone /\ unnoted' \in BOOLEAN
      /\ unnoted' \/ previousKey' \in {switch.target, switch.keep}
  BY <1>1, TypeFacts DEF SettlePrevious, PreviousOf
<1>4. KernelTypeOK'
  BY <1>1, <1>2, <1>3, FixedSwitches DEF KernelTypeOK, SwitchType, Pcs, Outcomes
<1>5. ShapeInv' /\ InstalledInv' /\ KeptInv' /\ (hostKind' # "commit" => KnownInv')
  BY <1>1, <1>3, FixedSwitches DEF KernelInv, ShapeInv, InstalledInv, KeptInv, KnownInv,
     SwitchAllOrNothing
<1> QED BY <1>4, <1>5 DEF KernelInv

LEMMA EndSwitchKeeps == ASSUME KernelInv, EndSwitch PROVE KernelInv'
<1>1. /\ KernelTypeOK /\ switch.pc = "ended" /\ switch' = NoSwitch
      /\ UNCHANGED <<hostKind, program, versions, previousKey, legacyGone, unit, latest,
                     page, legacyTask, kernelFaults, unnoted, outdated>>
  BY DEF EndSwitch, KernelInv
<1>2. activeKey' = activeKey \/ (activeKey' = ActiveVersion /\ ActiveVersion \in Kernels
                                  /\ CanAdopt(ActiveVersion))
  BY <1>1, ActiveIsKernel DEF EndSwitch, KernelOrNone
<1>3. activeKey' \in KernelOrNone
  BY <1>1, <1>2, TypeFacts DEF KernelOrNone
<1>4. KernelTypeOK'
  BY <1>1, <1>3, FixedSwitches DEF KernelTypeOK, SwitchType, Pcs, Outcomes
<1>5. ShapeInv' /\ InstalledInv' /\ KeptInv'
  BY <1>1, FixedSwitches DEF KernelInv, ShapeInv, InstalledInv, KeptInv, SwitchAllOrNothing
<1>6. hostKind' # "commit" => KnownInv'
  <2>1. CanAdopt(ActiveVersion) /\ hostKind # "commit" => versions[ActiveVersion] # Damaged
    BY KernelsAreNumbers, TypeFacts, <1>1 DEF CanAdopt, KernelOrNone
  <2> QED BY <1>1, <1>2, <2>1, FixedSwitches DEF KernelInv, KnownInv
<1> QED BY <1>4, <1>5, <1>6 DEF KernelInv

---------------------------------------------------------------------------
(* The theorems.                                                           *)

LEMMA StepKeeps == ASSUME KernelInv, [KernelNext]_kernelVars PROVE KernelInv'
<1>1. CASE KernelNext
  BY <1>1, StartPanelKeeps, CheckLegacyKeeps, BeginKeeps, FetchLatestKeeps,
     InstallResolvedKeeps,
     ReadReplacedKeeps, AdoptVersionKeeps, AdoptRecordKeeps, LoadTargetKeeps, WriteBinaryKeeps,
     RestartTargetKeeps, CheckTargetKeeps, RestoreBinaryKeeps, RestartBackKeeps, CheckBackKeeps,
     RecordActiveKeeps, RememberReplacedKeeps, NoteLegacyKeeps, PruneVersionsKeeps,
     SettlePreviousKeeps, EndSwitchKeeps, PageReadsKeeps, PageAdoptsKeeps, PageRecordsKeeps,
     UnitKeeps, PublishKeeps, PanelEndsKeeps
     DEF KernelNext, SwitchStep
<1>2. CASE UNCHANGED kernelVars
  <2>1. KernelTypeOK'
    BY <1>2 DEF kernelVars, KernelInv, KernelTypeOK
  <2>2. ShapeInv' /\ InstalledInv' /\ KeptInv' /\ (hostKind' # "commit" => KnownInv')
    BY <1>2 DEF kernelVars, KernelInv, ShapeInv, InstalledInv, KeptInv, KnownInv,
       SwitchAllOrNothing, CanAdopt, Tracked, BundledMatches
  <2> QED BY <2>1, <2>2 DEF KernelInv
<1> QED BY <1>1, <1>2

\* Whatever the order of a switch, pages, the service and ends of the panel, each step of a
\* switch finds the files and the records it relies on (activate_locked, remember_replaced,
\* prune_versions, initialize_installed_version).
THEOREM KernelInvariant == KernelSpec => []KernelInv
<1>1. KernelInv /\ [KernelNext]_kernelVars => KernelInv'
  BY StepKeeps
<1> QED BY InitHolds, <1>1, PTL DEF KernelSpec

\* A switch that reports success has left its target installed, one that reports that it put
\* the earlier kernel back has, and a service that ran runs what is installed.
THEOREM SwitchIsAllOrNothing == KernelSpec => []SwitchAllOrNothing
<1>1. KernelInv => SwitchAllOrNothing
  BY DEF KernelInv, InstalledInv
<1> QED BY KernelInvariant, <1>1, PTL

\* The kernel a switch replaced is the one to go back to, and a kernel that a roll back is
\* offered to has its files.
THEOREM WayBackIsAlwaysKept == KernelSpec => []WayBackIsKept
<1>1. KernelInv => WayBackIsKept
  <2> SUFFICES ASSUME KernelInv PROVE WayBackIsKept
    OBVIOUS
  <2>1. PreviousOf(ActiveVersion) # NoKernel => previousKey # NoKernel
    BY DEF PreviousOf
  <2> QED BY <2>1, TypeFacts DEF KernelInv, KeptInv, WayBackIsKept
<1> QED BY KernelInvariant, <1>1, PTL

\* Where the kernel's package is known, the panel starts whatever an interrupted switch left.
THEOREM StartIsNeverRefused == KernelSpec => []StartIsNotRefused
<1>1. KernelInv => StartIsNotRefused
  BY DEF KernelInv, KnownInv, StartIsNotRefused
<1> QED BY KernelInvariant, <1>1, PTL


---------------------------------------------------------------------------
(* install.sh: the invariant.                                              *)

IsDisk(d) ==
  /\ d = [p \in Pieces |-> d[p]]
  /\ \A p \in PanelPieces \union {"bundle", "database"} : d[p] \in {NoPiece, 1, 2}
  /\ d.kernel \in {NoPiece, 1, 2, 3} /\ d.kunit \in {NoPiece, 1, 2, Original}
  /\ d.config \in {NoPiece, 0, 1, 2} /\ d.resolver \in {"stub", "off"}
ServiceStates ==
  [panel : {NoPiece, 1, 2}, kixdns : {NoPiece, 1, 2, 3, Original},
   panelBoots : BOOLEAN, kixdnsBoots : BOOLEAN]
IsHost(h) ==
  /\ h = [disk |-> h.disk, services |-> h.services]
  /\ IsDisk(h.disk) /\ h.services \in ServiceStates

\* A panel that runs is the installed one on a database of its own.
PanelFits(d, s) ==
  s.panel # NoPiece =>
    s.panel = d.server /\ MayStart(d) /\ d.database = d.server
    /\ (s.panel = 2 => "panel" \in sound)

\* A KixDNS that runs is the installed one and has the port; one whose unit was taken away is
\* in the middle of an undo, which has not reached the panel.
KixdnsFits(d, s) ==
  /\ s.kixdns # NoPiece =>
       /\ d.kunit # NoPiece
       /\ s.kixdns = IF d.kunit = Original THEN Original ELSE d.kernel
       /\ d.kunit # Original => d.resolver = "off" /\ (s.kixdns = 2 => "kixdns" \in sound)
  /\ s.kixdnsBoots /\ d.kunit = NoPiece => d.server = 2 /\ d.env = 2

\* All pieces of the panel are of one release, and it is started at boot when it is there.
OneRelease(d, s) ==
  /\ \A p \in PanelPieces : d[p] = d.server
  /\ s.panelBoots = (d.server # NoPiece)

Kinds == {"none", "panel-only", "upgrade", "migrate", "fresh"}
Early == {"preserve", "stop", "save", "halt"}
InstallPcs == Early \union {"idle", "put", "start", "verify", "undo", "back", "restart"}
IsRun(r) ==
  /\ r = [pc |-> r.pc, kind |-> r.kind, existing |-> r.existing, changed |-> r.changed,
          restart |-> r.restart, stub |-> r.stub, created |-> r.created, saved |-> r.saved,
          stored |-> r.stored, left |-> r.left]
  /\ r.pc \in InstallPcs /\ r.kind \in Kinds /\ r.changed \subseteq {"kernel", "kunit"}
  /\ {r.existing, r.restart, r.stub, r.created, r.stored} \subseteq BOOLEAN
  /\ r.left \subseteq Pieces

InstallTypes ==
  /\ IsDisk(disk) /\ services \in ServiceStates /\ IsHost(before)
  /\ IsRun(install) /\ sound \subseteq {"panel", "kixdns"}
  /\ updater \in {"idle", "check", "compare", "fetch", "wait", "done", "failed"}
  /\ told \in {"nothing", "installed", "restored", "still down", "already"}
  /\ {late, cut} \subseteq BOOLEAN

\* What a run has saved, settled and asked.
SavedInv ==
  Running =>
    /\ told = "nothing" /\ updater \in {"idle", "wait"}
    /\ IsHost(install.saved)
    /\ PanelFits(install.saved.disk, install.saved.services)
    /\ KixdnsFits(install.saved.disk, install.saved.services)
    /\ cut \/ OneRelease(install.saved.disk, install.saved.services)
    /\ install.kind # "none"
    /\ install.existing = (install.saved.disk.server # NoPiece /\ install.saved.disk.env # NoPiece)
    /\ install.changed = IF install.kind = "panel-only" THEN {}
                         ELSE {p \in {"kernel", "kunit"} : install.saved.disk[p] # 2}
    /\ install.restart = (install.saved.services.kixdns # NoPiece /\ install.changed # {})
    /\ install.kind = "panel-only" => install.existing /\ ~install.stub
    /\ install.kind = "fresh" =>
         ~install.existing /\ install.saved.disk.kunit = NoPiece
    /\ install.stub => install.saved.disk.resolver = "stub"
    /\ install.created => install.kind = "migrate" /\ install.saved.disk.external = NoPiece
    /\ install.pc = "preserve" =>
         ~install.created /\ install.kind = "migrate" /\ install.saved.disk.external = NoPiece
    /\ install.pc \in {"preserve", "stop", "save"} => ~install.stored
    /\ install.pc \in {"halt", "put", "start", "verify"} => install.stored
    /\ install.pc = "put" => install.left \subseteq ToPut(install)
    /\ install.pc = "back" => install.left \subseteq ToPut(install) \union {"database"}

\* The host as a run found it is what the run has saved, but for what the panel changes while
\* only itself is replaced.
BeforeInv ==
  Running =>
    /\ \A p \in Pieces \ {"config", "kernel"} : before.disk[p] = install.saved.disk[p]
    /\ before.services = [install.saved.services EXCEPT !.kixdns = before.services.kixdns]
    /\ install.kind # "panel-only" => before = install.saved
    /\ install.kind = "panel-only" =>
         /\ \A p \in KixdnsPieces : disk[p] = before.disk[p]
         /\ services.kixdns = before.services.kixdns

\* The pieces of the panel at each step.
PanelPiecesInv ==
  Running =>
    \A p \in PanelPieces :
      /\ install.pc \in Early \union {"restart"} => disk[p] = install.saved.disk[p]
      /\ install.pc = "put" /\ p \notin install.left => disk[p] = 2
      /\ install.pc \in {"start", "verify"} => disk[p] = 2
      /\ install.pc = "back" /\ p \notin install.left => disk[p] = install.saved.disk[p]
      /\ p \in {"server", "env"} /\ install.saved.disk[p] = 2 => disk[p] = 2

\* The database, systemd-resolved and the record of the KixDNS that was there before.
OtherPiecesInv ==
  Running =>
    /\ install.pc \in Early \union {"put", "start", "restart"} \/ ~install.stored =>
         disk.database = install.saved.disk.database
    /\ install.pc = "back" /\ "database" \notin install.left =>
         disk.database = install.saved.disk.database
    /\ ~install.stub \/ install.pc \in Early \union {"restart"} =>
         disk.resolver = install.saved.disk.resolver
    /\ install.pc = "back" /\ "resolver" \notin install.left =>
         disk.resolver = install.saved.disk.resolver
    /\ ~install.created \/ install.pc = "restart" =>
         disk.external = install.saved.disk.external

\* The pieces of KixDNS, where a run replaces them.
KixdnsPiecesInv ==
  Running /\ install.kind # "panel-only" =>
    /\ \A p \in {"bundle", "config"} \union install.changed :
         /\ install.pc \in Early => late \/ disk[p] = install.saved.disk[p]
         /\ install.pc = "put" /\ p \notin install.left =>
              IF p = "config" THEN disk[p] # NoPiece ELSE disk[p] = 2
         /\ install.pc \in {"start", "verify"} =>
              IF p = "config" THEN disk[p] # NoPiece ELSE late \/ disk[p] = 2
         /\ install.pc = "restart" \/ (install.pc = "back" /\ p \notin install.left) =>
              disk[p] = install.saved.disk[p]
    /\ "kunit" \notin install.changed => disk.kunit = 2
    /\ "kernel" \notin install.changed => late \/ disk.kernel = 2
    /\ disk.kunit # install.saved.disk.kunit => disk.server = 2 /\ disk.env = 2
    /\ install.pc \in Early => disk.kunit = install.saved.disk.kunit

\* What runs, and what the boot starts.
ServicesInv ==
  Running =>
    /\ services.kixdnsBoots = install.saved.services.kixdnsBoots
    /\ install.pc \in {"save", "halt", "put", "start", "back", "restart"} =>
         services.panel = NoPiece
    /\ install.saved.services.panelBoots /\ (install.existing \/ install.pc \notin {"back", "restart"})
         => services.panelBoots
    /\ install.pc \in {"start", "verify"} => services.panelBoots
    /\ install.pc \in {"back", "restart"} /\ ~install.existing => ~services.panelBoots
    /\ install.saved.services.kixdns = NoPiece => services.kixdns = NoPiece
    /\ install.changed = {} /\ (install.pc # "restart" \/ ~install.created) =>
         \/ services.kixdns = install.saved.services.kixdns
         \/ late \/ install.kind = "panel-only"
    /\ install.pc \in Early => late \/ install.kind = "panel-only"
                               \/ services.kixdns = install.saved.services.kixdns
    /\ install.changed # {} /\ install.pc \in {"put", "back"} => services.kixdns = NoPiece
    /\ install.pc = "restart" =>
         \/ late \/ install.kind = "panel-only"
         \/ services.kixdns = install.saved.services.kixdns
         \/ services.kixdns = NoPiece /\ install.saved.disk.config = NoPiece

\* What the last run told, and what the online update shows.
UpdateInv ==
  /\ ~Running => updater # "wait"
  /\ updater = "done" => cut \/ disk.server = 2
  /\ updateState.state = "complete" =>
       cut \/ (disk.server = 2 /\ (Running => install.saved.disk.server = 2))

InstallInv ==
  /\ InstallTypes /\ SavedInv /\ BeforeInv /\ PanelPiecesInv /\ OtherPiecesInv
  /\ KixdnsPiecesInv /\ ServicesInv /\ UpdateInv /\ InstallAllOrNothing
  /\ PanelFits(disk, services) /\ KixdnsFits(disk, services)
  /\ ~Running => cut \/ OneRelease(disk, services)

---------------------------------------------------------------------------
(* What the steps of a run change.                                         *)

LEMMA NoRelease ==
  /\ NoPiece \notin {0, 1, 2, 3} /\ Original \notin {0, 1, 2, 3, NoPiece}
BY InstallAssumption DEF InstallAssumption

SameRun ==
  /\ install'.kind = install.kind /\ install'.existing = install.existing
  /\ install'.changed = install.changed /\ install'.restart = install.restart
  /\ install'.stub = install.stub /\ install'.saved = install.saved

LEMMA RunGoesOn ==
  ASSUME InstallTypes, NEW pc \in InstallPcs, NEW left \in SUBSET Pieces,
         NEW created \in BOOLEAN, NEW stored \in BOOLEAN,
         install' = [pc |-> pc, kind |-> install.kind, existing |-> install.existing,
                     changed |-> install.changed, restart |-> install.restart,
                     stub |-> install.stub, created |-> created, saved |-> install.saved,
                     stored |-> stored, left |-> left]
  PROVE  /\ IsRun(install)' /\ SameRun /\ install'.pc = pc /\ install'.left = left
         /\ install'.created = created /\ install'.stored = stored
BY DEF InstallTypes, IsRun, SameRun

LEMMA RunIs ==
  ASSUME InstallTypes
  PROVE  install = [pc |-> install.pc, kind |-> install.kind, existing |-> install.existing,
                    changed |-> install.changed, restart |-> install.restart,
                    stub |-> install.stub, created |-> install.created, saved |-> install.saved,
                    stored |-> install.stored, left |-> install.left]
BY DEF InstallTypes, IsRun

LEMMA RunMoves ==
  ASSUME InstallTypes, NEW pc \in InstallPcs, install' = [install EXCEPT !.pc = pc]
  PROVE  /\ IsRun(install)' /\ SameRun /\ install'.pc = pc /\ install'.left = install.left
         /\ install'.created = install.created /\ install'.stored = install.stored
<1>1. install' = [pc |-> pc, kind |-> install.kind, existing |-> install.existing,
                  changed |-> install.changed, restart |-> install.restart,
                  stub |-> install.stub, created |-> install.created, saved |-> install.saved,
                  stored |-> install.stored, left |-> install.left]
  BY RunIs
<1>2. install.left \in SUBSET Pieces /\ install.created \in BOOLEAN /\ install.stored \in BOOLEAN
  BY DEF InstallTypes, IsRun
<1> QED
  BY <1>1, <1>2, RunGoesOn

\* What a run is to replace stays the same.
LEMMA SameToPut == ASSUME SameRun PROVE ToPut(install)' = ToPut(install)
BY DEF SameRun, ToPut, PanelPieces

LEMMA RunBegins ==
  ASSUME InstallInv, NEW panelOnly \in BOOLEAN, NEW stub \in BOOLEAN, BeginRun(panelOnly, stub),
         ~Running, updater' \in {"idle", "wait"}, UNCHANGED <<disk, services, sound, updateState, cut>>
  PROVE  InstallInv'
<1> USE InstallAssumption, NoRelease DEF InstallAssumption, InstallInv, Running
<1>a. /\ KindOf(panelOnly) \in Kinds \ {"none"} /\ Existing \in BOOLEAN
      /\ ChangedKixdns(KindOf(panelOnly)) \subseteq {"kernel", "kunit"}
  BY DEF KindOf, Existing, ChangedKixdns, Kinds
<1> DEFINE kind == KindOf(panelOnly)
           changed == ChangedKixdns(kind)
           restart == services.kixdns # NoPiece /\ changed # {}
           pc == IF kind = "migrate" /\ disk.external = NoPiece THEN "preserve" ELSE "stop"
<1>b. install' = [pc |-> pc, kind |-> kind, existing |-> Existing, changed |-> changed,
                  restart |-> restart, stub |-> stub, created |-> FALSE, saved |-> Host,
                  stored |-> FALSE, left |-> {}]
  BY DEF BeginRun, NoRun
<1>c. /\ kind = "panel-only" => Existing /\ ~stub
      /\ kind = "fresh" => ~Existing /\ disk.kunit = NoPiece
      /\ changed = IF kind = "panel-only" THEN {} ELSE {p \in {"kernel", "kunit"} : disk[p] # 2}
      /\ stub => disk.resolver = "stub"
      /\ told' = "nothing" /\ before' = Host /\ late' = FALSE
  BY DEF BeginRun, KindOf, ChangedKixdns
<1>d. restart \in BOOLEAN /\ pc \in {"preserve", "stop"}
  OBVIOUS
<1> HIDE DEF kind, changed, restart, pc
<1>e. /\ install'.pc = pc /\ install'.kind = kind /\ install'.existing = Existing
      /\ install'.changed = changed /\ install'.restart = restart /\ install'.stub = stub
      /\ install'.created = FALSE /\ install'.saved = Host /\ install'.stored = FALSE
      /\ install'.left = {} /\ IsRun(install)'
  BY <1>a, <1>b, <1>d DEF IsRun, InstallPcs, Early, kind, changed
<1>f. Host.disk = disk /\ Host.services = services /\ IsHost(Host)
  BY DEF Host, IsHost, InstallTypes
<1>1. InstallTypes'
  BY <1>c, <1>e, <1>f DEF InstallTypes
<1>2. SavedInv'
  <2>1. restart = (services.kixdns # NoPiece /\ changed # {}) /\ kind # "none"
    BY <1>a DEF restart, kind
  <2>2. pc = "preserve" => kind = "migrate" /\ disk.external = NoPiece
    BY DEF pc
  <2>3. PanelFits(disk, services)' /\ KixdnsFits(disk, services)'
    BY DEF PanelFits, KixdnsFits
  <2>4. (cut \/ OneRelease(disk, services))'
    BY DEF OneRelease
  <2>5. (PanelFits(install.saved.disk, install.saved.services)
         /\ KixdnsFits(install.saved.disk, install.saved.services)
         /\ (cut \/ OneRelease(install.saved.disk, install.saved.services)))'
    BY <1>e, <1>f, <2>3, <2>4
  <2>6. Existing = (disk.server # NoPiece /\ disk.env # NoPiece)
    BY DEF Existing
  <2> QED
    BY <1>c, <1>e, <1>f, <1>d, <2>1, <2>2, <2>5, <2>6 DEF SavedInv
<1>3. BeforeInv'
  BY <1>c, <1>e, <1>f DEF BeforeInv, InstallTypes, ServiceStates, Pieces, KixdnsPieces
<1>4. PanelPiecesInv'
  BY <1>d, <1>e, <1>f DEF PanelPiecesInv, Early
<1>5. OtherPiecesInv'
  BY <1>d, <1>e, <1>f DEF OtherPiecesInv, Early
<1>6. KixdnsPiecesInv'
  BY <1>c, <1>d, <1>e, <1>f DEF KixdnsPiecesInv, Early
<1>7. ServicesInv'
  BY <1>c, <1>d, <1>e, <1>f DEF ServicesInv, Early, InstallTypes, ServiceStates
<1>8. UpdateInv'
  BY <1>d, <1>e, <1>f DEF UpdateInv
<1>9. InstallAllOrNothing'
  BY <1>8, <1>c DEF InstallAllOrNothing, UpdateInv
<1>10. PanelFits(disk, services)' /\ KixdnsFits(disk, services)'
  BY DEF PanelFits, KixdnsFits
<1> QED
  BY <1>1, <1>2, <1>3, <1>4, <1>5, <1>6, <1>7, <1>8, <1>9, <1>10, <1>d, <1>e

LEMMA AlreadyThere ==
  ASSUME InstallInv, ~Running, AlreadyInstalled, told' = "already", before' = Host,
         updater' = updater \/ updater' = "done",
         UNCHANGED <<disk, services, sound, install, updateState, cut, late>>
  PROVE  InstallInv'
<1> USE InstallAssumption, NoRelease DEF InstallAssumption, InstallInv, Running
<1>1. cut \/ (PanelWhole /\ disk.server = 2)
  BY DEF AlreadyInstalled, OneRelease, PanelWhole, PanelFits, PanelPieces, InstallTypes,
     ServiceStates, IsDisk
<1>2. PanelWhole' = PanelWhole
  BY DEF PanelWhole
<1>3. IsHost(Host)
  BY DEF Host, IsHost, InstallTypes
<1>4. InstallTypes'
  BY <1>3 DEF InstallTypes
<1>5. UpdateInv'
  BY <1>1 DEF UpdateInv
<1>6. InstallAllOrNothing'
  BY <1>1, <1>2, <1>5 DEF InstallAllOrNothing, UpdateInv
<1> QED
  BY <1>4, <1>5, <1>6 DEF SavedInv, BeforeInv, PanelPiecesInv, OtherPiecesInv, KixdnsPiecesInv,
     ServicesInv, PanelFits, KixdnsFits

LEMMA DiskMoves ==
  ASSUME NEW d, IsDisk(d), NEW q \in Pieces, NEW v
  PROVE  [d EXCEPT ![q] = v] = [p \in Pieces |-> IF p = q THEN v ELSE d[p]]
BY DEF IsDisk

LEMMA RunEnded ==
  ASSUME install' = NoRun
  PROVE  IsRun(install)' /\ ~Running'
BY DEF IsRun, NoRun, Running, InstallPcs, Early, Kinds

---------------------------------------------------------------------------
(* The steps of a run, one by one.                                         *)

LEMMA PanelStops == ASSUME InstallInv, StopPanel PROVE InstallInv'
<1> USE InstallAssumption, NoRelease DEF InstallAssumption, InstallInv, Running
<1>f. /\ IsRun(install)' /\ SameRun /\ install'.pc = "save" /\ install'.left = install.left
      /\ install'.created = install.created /\ install'.stored = install.stored
  BY RunMoves DEF StopPanel, GoTo, InstallPcs, Early
<1>g. /\ install.pc = "stop" /\ UNCHANGED <<disk, sound, updater, updateState, told, before, late, cut>>
      /\ services' = [services EXCEPT !.panel = NoPiece]
  BY DEF StopPanel, installVars, installHistory, updateRest, installCounts
<1> USE DEF SameRun
<1>1. InstallTypes'
  BY <1>f, <1>g DEF InstallTypes, ServiceStates
<1>2. SavedInv'
  BY <1>f, <1>g DEF SavedInv, PanelFits, KixdnsFits, ToPut, PanelPieces
<1>3. BeforeInv'
  BY <1>f, <1>g DEF BeforeInv, SavedInv, InstallTypes, ServiceStates
<1>4. PanelPiecesInv'
  BY <1>f, <1>g DEF PanelPiecesInv, PanelPieces, Early
<1>5. OtherPiecesInv'
  BY <1>f, <1>g DEF OtherPiecesInv, SavedInv, Early
<1>6. KixdnsPiecesInv'
  BY <1>f, <1>g DEF KixdnsPiecesInv, SavedInv, Early
<1>7. ServicesInv'
  BY <1>f, <1>g DEF ServicesInv, SavedInv, InstallTypes, ServiceStates, Early
<1>8. UpdateInv'
  BY <1>f, <1>g DEF UpdateInv, SavedInv, PanelPiecesInv, PanelPieces
<1>9. InstallAllOrNothing'
  BY <1>f, <1>g, <1>8 DEF InstallAllOrNothing, UpdateInv, SavedInv, PanelWhole, KixdnsAsBefore,
     KixdnsWhole, Restored
<1>10. PanelFits(disk, services)'
  BY <1>f, <1>g DEF PanelFits, SavedInv, InstallTypes, ServiceStates
<1>11. KixdnsFits(disk, services)'
  BY <1>f, <1>g DEF KixdnsFits, SavedInv, InstallTypes, ServiceStates
<1>12. (~Running => cut \/ OneRelease(disk, services))'
  BY <1>f, <1>g DEF SavedInv
<1> QED
  BY <1>1, <1>2, <1>3, <1>4, <1>5, <1>6, <1>7, <1>8, <1>9, <1>10, <1>11, <1>12

LEMMA RunIsCut == ASSUME InstallInv, IsRun(install)', SameRun, install'.pc = "undo",
         install'.left = install.left, install'.created = install.created,
         install'.stored = install.stored,
         install.pc \in {"preserve", "stop", "save", "halt", "put", "start", "verify"},
         UNCHANGED <<disk, services, sound, updater, updateState, told, before, late, cut>>
           PROVE InstallInv'
<1> USE InstallAssumption, NoRelease DEF InstallAssumption, InstallInv, Running
<1> USE DEF SameRun
<1>1. InstallTypes'
  BY DEF InstallTypes
<1>2. SavedInv'
  BY DEF SavedInv, PanelFits, KixdnsFits, ToPut, PanelPieces
<1>3. BeforeInv'
  BY DEF BeforeInv, SavedInv
<1>4. PanelPiecesInv'
  BY DEF PanelPiecesInv, PanelPieces, Early
<1>5. OtherPiecesInv'
  BY DEF OtherPiecesInv, SavedInv, Early
<1>6. KixdnsPiecesInv'
  BY DEF KixdnsPiecesInv, SavedInv, Early
<1>7. ServicesInv'
  BY DEF ServicesInv, SavedInv, InstallTypes, ServiceStates, Early
<1>8. UpdateInv'
  BY DEF UpdateInv, SavedInv, PanelPiecesInv, PanelPieces
<1>9. InstallAllOrNothing'
  BY <1>8 DEF InstallAllOrNothing, UpdateInv, SavedInv, PanelWhole, KixdnsAsBefore,
     KixdnsWhole, Restored
<1>10. PanelFits(disk, services)'
  BY DEF PanelFits, SavedInv
<1>11. KixdnsFits(disk, services)'
  BY DEF KixdnsFits, SavedInv
<1>12. (~Running => cut \/ OneRelease(disk, services))'
  BY DEF SavedInv
<1> QED
  BY <1>1, <1>2, <1>3, <1>4, <1>5, <1>6, <1>7, <1>8, <1>9, <1>10, <1>11, <1>12

LEMMA StepIsCut == ASSUME InstallInv, StepFails PROVE InstallInv'
<1> USE InstallAssumption, NoRelease DEF InstallAssumption, InstallInv, Running
<1>f. /\ IsRun(install)' /\ SameRun /\ install'.pc = "undo" /\ install'.left = install.left
      /\ install'.created = install.created /\ install'.stored = install.stored
  BY RunMoves DEF StepFails, GoTo, InstallPcs, Early
<1>g. /\ install.pc \in {"preserve", "stop", "save", "halt", "put", "start", "verify"}
      /\ UNCHANGED <<disk, services, sound, updater, updateState, told, before, late, cut>>
  BY DEF StepFails, installVars, installHistory, updateRest, installCounts
<1> QED
  BY <1>f, <1>g, RunIsCut

LEMMA UpdateStarts == ASSUME InstallInv, StartPanelUpdate PROVE InstallInv'
<1> USE InstallAssumption, NoRelease DEF InstallAssumption, InstallInv, Running
<1>f. UNCHANGED <<disk, services, sound, install, told, before, late, cut>>
  BY DEF StartPanelUpdate, installVars, installHistory, updateRest, installCounts,
     LaunchPanelUpdate, Shows, InstallEvent
<1>g. updater = "idle" /\ updater' = "check" /\ UNCHANGED updateState /\ ~Running
  BY DEF StartPanelUpdate, LaunchPanelUpdate, Shows, InstallEvent, ShownRunning
<1>1. InstallTypes'
  BY <1>f, <1>g DEF InstallTypes
<1>2. SavedInv'
  BY <1>f, <1>g DEF SavedInv, PanelFits, KixdnsFits, ToPut, PanelPieces
<1>3. BeforeInv'
  BY <1>f, <1>g DEF BeforeInv, SavedInv
<1>4. PanelPiecesInv'
  BY <1>f, <1>g DEF PanelPiecesInv, PanelPieces, Early
<1>5. OtherPiecesInv'
  BY <1>f, <1>g DEF OtherPiecesInv, SavedInv, Early
<1>6. KixdnsPiecesInv'
  BY <1>f, <1>g DEF KixdnsPiecesInv, SavedInv, Early
<1>7. ServicesInv'
  BY <1>f, <1>g DEF ServicesInv, SavedInv, InstallTypes, ServiceStates, Early
<1>8. UpdateInv'
  BY <1>f, <1>g DEF UpdateInv, SavedInv, PanelPiecesInv, PanelPieces
<1>9. InstallAllOrNothing'
  BY <1>f, <1>g, <1>8 DEF InstallAllOrNothing, UpdateInv, SavedInv, PanelWhole, KixdnsAsBefore,
     KixdnsWhole, Restored
<1>10. PanelFits(disk, services)'
  BY <1>f, <1>g DEF PanelFits, SavedInv
<1>11. KixdnsFits(disk, services)'
  BY <1>f, <1>g DEF KixdnsFits, SavedInv
<1>12. (~Running => cut \/ OneRelease(disk, services))'
  BY <1>f, <1>g DEF SavedInv
<1> QED
  BY <1>1, <1>2, <1>3, <1>4, <1>5, <1>6, <1>7, <1>8, <1>9, <1>10, <1>11, <1>12

LEMMA CheckingShows == ASSUME InstallInv, ShowChecking PROVE InstallInv'
<1> USE InstallAssumption, NoRelease DEF InstallAssumption, InstallInv, Running
<1>f. UNCHANGED <<disk, services, sound, install, told, before, late, cut>>
  BY DEF ShowChecking, installVars, installHistory, updateRest, installCounts,
     LaunchPanelUpdate, Shows, InstallEvent
<1>g. updater = "check" /\ updater' = "compare" /\ updateState' = [state |-> "checking", old |-> FALSE]
  BY DEF ShowChecking, LaunchPanelUpdate, Shows, InstallEvent, ShownRunning
<1>1. InstallTypes'
  BY <1>f, <1>g DEF InstallTypes
<1>2. SavedInv'
  BY <1>f, <1>g DEF SavedInv, PanelFits, KixdnsFits, ToPut, PanelPieces
<1>3. BeforeInv'
  BY <1>f, <1>g DEF BeforeInv, SavedInv
<1>4. PanelPiecesInv'
  BY <1>f, <1>g DEF PanelPiecesInv, PanelPieces, Early
<1>5. OtherPiecesInv'
  BY <1>f, <1>g DEF OtherPiecesInv, SavedInv, Early
<1>6. KixdnsPiecesInv'
  BY <1>f, <1>g DEF KixdnsPiecesInv, SavedInv, Early
<1>7. ServicesInv'
  BY <1>f, <1>g DEF ServicesInv, SavedInv, InstallTypes, ServiceStates, Early
<1>8. UpdateInv'
  BY <1>f, <1>g DEF UpdateInv, SavedInv, PanelPiecesInv, PanelPieces
<1>9. InstallAllOrNothing'
  BY <1>f, <1>g, <1>8 DEF InstallAllOrNothing, UpdateInv, SavedInv, PanelWhole, KixdnsAsBefore,
     KixdnsWhole, Restored
<1>10. PanelFits(disk, services)'
  BY <1>f, <1>g DEF PanelFits, SavedInv
<1>11. KixdnsFits(disk, services)'
  BY <1>f, <1>g DEF KixdnsFits, SavedInv
<1>12. (~Running => cut \/ OneRelease(disk, services))'
  BY <1>f, <1>g DEF SavedInv
<1> QED
  BY <1>1, <1>2, <1>3, <1>4, <1>5, <1>6, <1>7, <1>8, <1>9, <1>10, <1>11, <1>12

LEMMA UpdateIsCut == ASSUME InstallInv, UpdateFails PROVE InstallInv'
<1> USE InstallAssumption, NoRelease DEF InstallAssumption, InstallInv, Running
<1>f. UNCHANGED <<disk, services, sound, install, told, before, late, cut>>
  BY DEF UpdateFails, installVars, installHistory, updateRest, installCounts,
     LaunchPanelUpdate, Shows, InstallEvent
<1>g. updater \in {"compare", "fetch"} /\ updater' = "failed" /\ UNCHANGED updateState
  BY DEF UpdateFails, LaunchPanelUpdate, Shows, InstallEvent, ShownRunning
<1>1. InstallTypes'
  BY <1>f, <1>g DEF InstallTypes
<1>2. SavedInv'
  BY <1>f, <1>g DEF SavedInv, PanelFits, KixdnsFits, ToPut, PanelPieces
<1>3. BeforeInv'
  BY <1>f, <1>g DEF BeforeInv, SavedInv
<1>4. PanelPiecesInv'
  BY <1>f, <1>g DEF PanelPiecesInv, PanelPieces, Early
<1>5. OtherPiecesInv'
  BY <1>f, <1>g DEF OtherPiecesInv, SavedInv, Early
<1>6. KixdnsPiecesInv'
  BY <1>f, <1>g DEF KixdnsPiecesInv, SavedInv, Early
<1>7. ServicesInv'
  BY <1>f, <1>g DEF ServicesInv, SavedInv, InstallTypes, ServiceStates, Early
<1>8. UpdateInv'
  BY <1>f, <1>g DEF UpdateInv, SavedInv, PanelPiecesInv, PanelPieces
<1>9. InstallAllOrNothing'
  BY <1>f, <1>g, <1>8 DEF InstallAllOrNothing, UpdateInv, SavedInv, PanelWhole, KixdnsAsBefore,
     KixdnsWhole, Restored
<1>10. PanelFits(disk, services)'
  BY <1>f, <1>g DEF PanelFits, SavedInv
<1>11. KixdnsFits(disk, services)'
  BY <1>f, <1>g DEF KixdnsFits, SavedInv
<1>12. (~Running => cut \/ OneRelease(disk, services))'
  BY <1>f, <1>g DEF SavedInv
<1> QED
  BY <1>1, <1>2, <1>3, <1>4, <1>5, <1>6, <1>7, <1>8, <1>9, <1>10, <1>11, <1>12

LEMMA UpdateReports == ASSUME InstallInv, ReportUpdate PROVE InstallInv'
<1> USE InstallAssumption, NoRelease DEF InstallAssumption, InstallInv, Running
<1>f. UNCHANGED <<disk, services, sound, install, told, before, late, cut>>
  BY DEF ReportUpdate, installVars, installHistory, updateRest, installCounts,
     LaunchPanelUpdate, Shows, InstallEvent
<1>g. /\ updater \in {"done", "failed"} /\ updater' = "idle"
      /\ updateState' = [state |-> IF updater = "done" THEN "complete" ELSE "failed", old |-> FALSE]
  BY DEF ReportUpdate, LaunchPanelUpdate, Shows, InstallEvent, ShownRunning
<1>1. InstallTypes'
  BY <1>f, <1>g DEF InstallTypes
<1>2. SavedInv'
  BY <1>f, <1>g DEF SavedInv, PanelFits, KixdnsFits, ToPut, PanelPieces
<1>3. BeforeInv'
  BY <1>f, <1>g DEF BeforeInv, SavedInv
<1>4. PanelPiecesInv'
  BY <1>f, <1>g DEF PanelPiecesInv, PanelPieces, Early
<1>5. OtherPiecesInv'
  BY <1>f, <1>g DEF OtherPiecesInv, SavedInv, Early
<1>6. KixdnsPiecesInv'
  BY <1>f, <1>g DEF KixdnsPiecesInv, SavedInv, Early
<1>7. ServicesInv'
  BY <1>f, <1>g DEF ServicesInv, SavedInv, InstallTypes, ServiceStates, Early
<1>8. UpdateInv'
  BY <1>f, <1>g DEF UpdateInv, SavedInv, PanelPiecesInv, PanelPieces
<1>9. InstallAllOrNothing'
  BY <1>f, <1>g, <1>8 DEF InstallAllOrNothing, UpdateInv, SavedInv, PanelWhole, KixdnsAsBefore,
     KixdnsWhole, Restored
<1>10. PanelFits(disk, services)'
  BY <1>f, <1>g DEF PanelFits, SavedInv
<1>11. KixdnsFits(disk, services)'
  BY <1>f, <1>g DEF KixdnsFits, SavedInv
<1>12. (~Running => cut \/ OneRelease(disk, services))'
  BY <1>f, <1>g DEF SavedInv
<1> QED
  BY <1>1, <1>2, <1>3, <1>4, <1>5, <1>6, <1>7, <1>8, <1>9, <1>10, <1>11, <1>12

LEMMA StatusGrowsOld == ASSUME InstallInv, StatusAges PROVE InstallInv'
<1> USE InstallAssumption, NoRelease DEF InstallAssumption, InstallInv, Running
<1>f. UNCHANGED <<disk, services, sound, install, told, before, late, cut>>
  BY DEF StatusAges, installVars, installHistory, updateRest, installCounts, LaunchPanelUpdate,
     Shows, InstallEvent
<1>g. /\ UNCHANGED updater /\ updateState' = [updateState EXCEPT !.old = TRUE]
      /\ updateState.state \in {"checking", "downloading"}
  BY DEF StatusAges, LaunchPanelUpdate, Shows, InstallEvent, ShownRunning
<1>1. InstallTypes'
  BY <1>f, <1>g DEF InstallTypes
<1>2. SavedInv'
  BY <1>f, <1>g DEF SavedInv, PanelFits, KixdnsFits, ToPut, PanelPieces
<1>3. BeforeInv'
  BY <1>f, <1>g DEF BeforeInv, SavedInv
<1>4. PanelPiecesInv'
  BY <1>f, <1>g DEF PanelPiecesInv, PanelPieces, Early
<1>5. OtherPiecesInv'
  BY <1>f, <1>g DEF OtherPiecesInv, SavedInv, Early
<1>6. KixdnsPiecesInv'
  BY <1>f, <1>g DEF KixdnsPiecesInv, SavedInv, Early
<1>7. ServicesInv'
  BY <1>f, <1>g DEF ServicesInv, SavedInv, InstallTypes, ServiceStates, Early
<1>8. UpdateInv'
  BY <1>f, <1>g DEF UpdateInv, SavedInv, PanelPiecesInv, PanelPieces
<1>9. InstallAllOrNothing'
  BY <1>f, <1>g, <1>8 DEF InstallAllOrNothing, UpdateInv, SavedInv, PanelWhole, KixdnsAsBefore,
     KixdnsWhole, Restored
<1>10. PanelFits(disk, services)'
  BY <1>f, <1>g DEF PanelFits, SavedInv
<1>11. KixdnsFits(disk, services)'
  BY <1>f, <1>g DEF KixdnsFits, SavedInv
<1>12. (~Running => cut \/ OneRelease(disk, services))'
  BY <1>f, <1>g DEF SavedInv
<1> QED
  BY <1>1, <1>2, <1>3, <1>4, <1>5, <1>6, <1>7, <1>8, <1>9, <1>10, <1>11, <1>12

LEMMA ReleasesCompare == ASSUME InstallInv, CompareReleases PROVE InstallInv'
<1> USE InstallAssumption, NoRelease DEF InstallAssumption, InstallInv, Running
<1>f. UNCHANGED <<disk, services, sound, install, told, before, late, cut>>
  BY DEF CompareReleases, installVars, installHistory, updateRest, installCounts,
     LaunchPanelUpdate, Shows, InstallEvent
<1>g. /\ updater = "compare"
      /\ \/ disk.env = 2 /\ updater' = "idle" /\ updateState' = [state |-> "complete", old |-> FALSE]
         \/ updater' = "fetch" /\ updateState' = [state |-> "downloading", old |-> FALSE]
  BY DEF CompareReleases, LaunchPanelUpdate, Shows, InstallEvent, ShownRunning
<1>1. InstallTypes'
  BY <1>f, <1>g DEF InstallTypes
<1>2. SavedInv'
  BY <1>f, <1>g DEF SavedInv, PanelFits, KixdnsFits, ToPut, PanelPieces
<1>3. BeforeInv'
  BY <1>f, <1>g DEF BeforeInv, SavedInv
<1>4. PanelPiecesInv'
  BY <1>f, <1>g DEF PanelPiecesInv, PanelPieces, Early
<1>5. OtherPiecesInv'
  BY <1>f, <1>g DEF OtherPiecesInv, SavedInv, Early
<1>6. KixdnsPiecesInv'
  BY <1>f, <1>g DEF KixdnsPiecesInv, SavedInv, Early
<1>7. ServicesInv'
  BY <1>f, <1>g DEF ServicesInv, SavedInv, InstallTypes, ServiceStates, Early
<1>8. UpdateInv'
  BY <1>f, <1>g DEF UpdateInv, SavedInv, PanelPiecesInv, PanelPieces, OneRelease
<1>9. InstallAllOrNothing'
  BY <1>f, <1>g, <1>8 DEF InstallAllOrNothing, UpdateInv, SavedInv, PanelWhole, KixdnsAsBefore,
     KixdnsWhole, Restored
<1>10. PanelFits(disk, services)'
  BY <1>f, <1>g DEF PanelFits, SavedInv
<1>11. KixdnsFits(disk, services)'
  BY <1>f, <1>g DEF KixdnsFits, SavedInv
<1>12. (~Running => cut \/ OneRelease(disk, services))'
  BY <1>f, <1>g DEF SavedInv
<1> QED
  BY <1>1, <1>2, <1>3, <1>4, <1>5, <1>6, <1>7, <1>8, <1>9, <1>10, <1>11, <1>12

LEMMA ExternalIsKept == ASSUME InstallInv, PreserveExternal PROVE InstallInv'
<1> USE InstallAssumption, NoRelease DEF InstallAssumption, InstallInv, Running
<1>e. install' = [pc |-> "stop", kind |-> install.kind, existing |-> install.existing,
                  changed |-> install.changed, restart |-> install.restart,
                  stub |-> install.stub, created |-> TRUE, saved |-> install.saved,
                  stored |-> install.stored, left |-> install.left]
  BY RunIs DEF PreserveExternal, GoTo
<1>k. install.left \in SUBSET Pieces /\ TRUE \in BOOLEAN /\ install.stored \in BOOLEAN
  BY DEF InstallTypes, IsRun
<1>f. /\ IsRun(install)' /\ SameRun /\ install'.pc = "stop" /\ install'.left = install.left
      /\ install'.created = TRUE /\ install'.stored = install.stored
  BY <1>e, <1>k, RunGoesOn DEF InstallPcs, Early
<1>g. install.pc = "preserve" /\ UNCHANGED <<services, sound, updater, updateState, told, before, late, cut>>
  BY DEF PreserveExternal, installVars, installHistory, updateRest, installCounts
<1> USE DEF SameRun
<1>d. PICK record : disk' = [p \in Pieces |-> IF p = "external" THEN record ELSE disk[p]]
  <2> DEFINE kept == [unit |-> disk.kunit, active |-> services.kixdns # NoPiece,
                      boots |-> services.kixdnsBoots]
  <2>1. disk' = [disk EXCEPT !["external"] = kept]
    BY DEF PreserveExternal
  <2> HIDE DEF kept
  <2>2. IsDisk(disk) /\ "external" \in Pieces
    BY DEF InstallTypes, Pieces
  <2>3. disk' = [p \in Pieces |-> IF p = "external" THEN kept ELSE disk[p]]
    BY <2>1, <2>2, DiskMoves
  <2> QED
    BY <2>3
<1> USE DEF Pieces, PanelPieces, KixdnsPieces
<1>1. InstallTypes'
  BY <1>e, <1>k, <1>f, <1>g, <1>d DEF InstallTypes, IsDisk
<1>2. SavedInv'
  BY <1>e, <1>k, <1>f, <1>g, <1>d DEF SavedInv, PanelFits, KixdnsFits, ToPut, PanelPieces
<1>3. BeforeInv'
  BY <1>e, <1>k, <1>f, <1>g, <1>d DEF BeforeInv, SavedInv
<1>4. PanelPiecesInv'
  BY <1>e, <1>k, <1>f, <1>g, <1>d DEF PanelPiecesInv, PanelPieces, Early
<1>5. OtherPiecesInv'
  BY <1>e, <1>k, <1>f, <1>g, <1>d DEF OtherPiecesInv, SavedInv, Early
<1>6. KixdnsPiecesInv'
  BY <1>e, <1>k, <1>f, <1>g, <1>d DEF KixdnsPiecesInv, SavedInv, Early
<1>7. ServicesInv'
  BY <1>e, <1>k, <1>f, <1>g, <1>d DEF ServicesInv, SavedInv, InstallTypes, ServiceStates, Early
<1>8. UpdateInv'
  BY <1>e, <1>k, <1>f, <1>g, <1>d DEF UpdateInv, SavedInv, PanelPiecesInv, PanelPieces
<1>9. InstallAllOrNothing'
  BY <1>e, <1>k, <1>f, <1>g, <1>d, <1>8 DEF InstallAllOrNothing, UpdateInv, SavedInv,
     PanelWhole, KixdnsAsBefore, KixdnsWhole, Restored, KixdnsPieces
<1>10. PanelFits(disk, services)'
  BY <1>e, <1>k, <1>f, <1>g, <1>d DEF PanelFits, SavedInv, MayStart
<1>11. KixdnsFits(disk, services)'
  BY <1>e, <1>k, <1>f, <1>g, <1>d DEF KixdnsFits, SavedInv
<1>12. (~Running => cut \/ OneRelease(disk, services))'
  BY <1>e, <1>k, <1>f, <1>g, <1>d DEF SavedInv
<1> QED
  BY <1>1, <1>2, <1>3, <1>4, <1>5, <1>6, <1>7, <1>8, <1>9, <1>10, <1>11, <1>12

LEMMA DatabaseIsSaved == ASSUME InstallInv, SaveDatabase PROVE InstallInv'
<1> USE InstallAssumption, NoRelease DEF InstallAssumption, InstallInv, Running
<1>g. /\ install.pc = "save" /\ UNCHANGED <<disk, services, sound, updater, updateState, told, before, late, cut>>
      /\ install' = [install EXCEPT !.pc = "halt", !.stored = TRUE, !.saved.disk.database = disk.database]
  BY DEF SaveDatabase, installVars, installHistory, updateRest, installCounts
<1>h. install.saved = [install.saved EXCEPT !.disk.database = disk.database]
  <2>1. install.saved = [disk |-> install.saved.disk, services |-> install.saved.services]
        /\ install.saved.disk = [p \in Pieces |-> install.saved.disk[p]]
    BY <1>g DEF SavedInv, IsHost, IsDisk
  <2>2. install.saved.disk.database = disk.database
    BY <1>g DEF OtherPiecesInv, Early
  <2>3. install.saved.disk = [install.saved.disk EXCEPT !.database = disk.database]
    BY <2>1, <2>2 DEF Pieces
  <2> QED
    BY <2>1, <2>3
<1>e. install' = [pc |-> "halt", kind |-> install.kind, existing |-> install.existing,
                  changed |-> install.changed, restart |-> install.restart,
                  stub |-> install.stub, created |-> install.created, saved |-> install.saved,
                  stored |-> TRUE, left |-> install.left]
  <2>1. install' = [pc |-> "halt", kind |-> install.kind, existing |-> install.existing,
                  changed |-> install.changed, restart |-> install.restart,
                  stub |-> install.stub, created |-> install.created,
                  saved |-> [install.saved EXCEPT !.disk.database = disk.database],
                  stored |-> TRUE, left |-> install.left]
    BY RunIs, <1>g
  <2> QED
    BY <1>h, <2>1
<1>k. install.left \in SUBSET Pieces /\ install.created \in BOOLEAN
  BY DEF InstallTypes, IsRun
<1>f. /\ IsRun(install)' /\ SameRun /\ install'.pc = "halt" /\ install'.left = install.left
      /\ install'.created = install.created /\ install'.stored = TRUE
  BY <1>e, <1>k, RunGoesOn DEF InstallPcs, Early
<1> USE DEF SameRun
<1>1. InstallTypes'
  BY <1>g, <1>h, <1>e, <1>k, <1>f DEF InstallTypes
<1>2. SavedInv'
  BY <1>g, <1>h, <1>e, <1>k, <1>f DEF SavedInv, PanelFits, KixdnsFits, ToPut, PanelPieces
<1>3. BeforeInv'
  BY <1>g, <1>h, <1>e, <1>k, <1>f DEF BeforeInv, SavedInv
<1>4. PanelPiecesInv'
  BY <1>g, <1>h, <1>e, <1>k, <1>f DEF PanelPiecesInv, PanelPieces, Early
<1>5. OtherPiecesInv'
  BY <1>g, <1>h, <1>e, <1>k, <1>f DEF OtherPiecesInv, SavedInv, Early
<1>6. KixdnsPiecesInv'
  BY <1>g, <1>h, <1>e, <1>k, <1>f DEF KixdnsPiecesInv, SavedInv, Early
<1>7. ServicesInv'
  BY <1>g, <1>h, <1>e, <1>k, <1>f DEF ServicesInv, SavedInv, InstallTypes, ServiceStates, Early
<1>8. UpdateInv'
  BY <1>g, <1>h, <1>e, <1>k, <1>f DEF UpdateInv, SavedInv, PanelPiecesInv, PanelPieces
<1>9. InstallAllOrNothing'
  BY <1>g, <1>h, <1>e, <1>k, <1>f, <1>8 DEF InstallAllOrNothing, UpdateInv, SavedInv,
     PanelWhole, KixdnsAsBefore, KixdnsWhole, Restored
<1>10. PanelFits(disk, services)'
  BY <1>g, <1>h, <1>e, <1>k, <1>f DEF PanelFits, SavedInv
<1>11. KixdnsFits(disk, services)'
  BY <1>g, <1>h, <1>e, <1>k, <1>f DEF KixdnsFits, SavedInv
<1>12. (~Running => cut \/ OneRelease(disk, services))'
  BY <1>g, <1>h, <1>e, <1>k, <1>f DEF SavedInv
<1> QED
  BY <1>1, <1>2, <1>3, <1>4, <1>5, <1>6, <1>7, <1>8, <1>9, <1>10, <1>11, <1>12

LEMMA KixdnsHalts == ASSUME InstallInv, HaltKixdns PROVE InstallInv'
<1> USE InstallAssumption, NoRelease DEF InstallAssumption, InstallInv, Running
<1>e. install' = [pc |-> "put", kind |-> install.kind, existing |-> install.existing,
                  changed |-> install.changed, restart |-> install.restart,
                  stub |-> install.stub, created |-> install.created, saved |-> install.saved,
                  stored |-> install.stored, left |-> ToPut(install)]
  BY RunIs DEF HaltKixdns, GoTo
<1>k. ToPut(install) \in SUBSET Pieces /\ install.created \in BOOLEAN /\ install.stored \in BOOLEAN
  BY DEF InstallTypes, IsRun, ToPut, Pieces, PanelPieces, KixdnsPieces
<1>f. /\ IsRun(install)' /\ SameRun /\ install'.pc = "put" /\ install'.left = ToPut(install)
      /\ install'.created = install.created /\ install'.stored = install.stored
  BY <1>e, <1>k, RunGoesOn DEF InstallPcs, Early
<1>g. /\ install.pc = "halt" /\ UNCHANGED <<disk, sound, updater, updateState, told, before, late, cut>>
      /\ services' = IF install.restart THEN [services EXCEPT !.kixdns = NoPiece] ELSE services
  BY DEF HaltKixdns, installVars, installHistory, updateRest, installCounts
<1> USE DEF SameRun
<1>1. InstallTypes'
  BY <1>e, <1>k, <1>f, <1>g DEF InstallTypes, ServiceStates
<1>2. SavedInv'
  BY <1>e, <1>k, <1>f, <1>g DEF SavedInv, PanelFits, KixdnsFits, ToPut, PanelPieces
<1>3. BeforeInv'
  BY <1>e, <1>k, <1>f, <1>g DEF BeforeInv, SavedInv, InstallTypes, ServiceStates
<1>4. PanelPiecesInv'
  BY <1>e, <1>k, <1>f, <1>g DEF PanelPiecesInv, PanelPieces, Early, ToPut
<1>5. OtherPiecesInv'
  BY <1>e, <1>k, <1>f, <1>g DEF OtherPiecesInv, SavedInv, Early
<1>6. KixdnsPiecesInv'
  BY <1>e, <1>k, <1>f, <1>g DEF KixdnsPiecesInv, SavedInv, Early, ToPut
<1>7. ServicesInv'
  BY <1>e, <1>k, <1>f, <1>g DEF ServicesInv, SavedInv, InstallTypes, ServiceStates, Early, IsRun
<1>8. UpdateInv'
  BY <1>e, <1>k, <1>f, <1>g DEF UpdateInv, SavedInv, PanelPiecesInv, PanelPieces
<1>9. InstallAllOrNothing'
  BY <1>e, <1>k, <1>f, <1>g, <1>8 DEF InstallAllOrNothing, UpdateInv, SavedInv, PanelWhole,
     KixdnsAsBefore, KixdnsWhole, Restored
<1>10. PanelFits(disk, services)'
  BY <1>e, <1>k, <1>f, <1>g DEF PanelFits, SavedInv, InstallTypes, ServiceStates
<1>11. KixdnsFits(disk, services)'
  BY <1>e, <1>k, <1>f, <1>g DEF KixdnsFits, SavedInv, InstallTypes, ServiceStates
<1>12. (~Running => cut \/ OneRelease(disk, services))'
  BY <1>e, <1>k, <1>f, <1>g DEF SavedInv
<1> QED
  BY <1>1, <1>2, <1>3, <1>4, <1>5, <1>6, <1>7, <1>8, <1>9, <1>10, <1>11, <1>12

LEMMA ServicesAreUndone == ASSUME InstallInv, UndoServices PROVE InstallInv'
<1> USE InstallAssumption, NoRelease DEF InstallAssumption, InstallInv, Running
<1>e. install' = [pc |-> "back", kind |-> install.kind, existing |-> install.existing,
                  changed |-> install.changed, restart |-> install.restart,
                  stub |-> install.stub, created |-> install.created, saved |-> install.saved,
                  stored |-> install.stored, left |-> ToUndo(install)]
  BY RunIs DEF UndoServices, GoTo
<1>k. ToUndo(install) \in SUBSET Pieces /\ install.created \in BOOLEAN /\ install.stored \in BOOLEAN
  BY DEF InstallTypes, IsRun, ToUndo, Pieces, PanelPieces, KixdnsPieces
<1>f. /\ IsRun(install)' /\ SameRun /\ install'.pc = "back" /\ install'.left = ToUndo(install)
      /\ install'.created = install.created /\ install'.stored = install.stored
  BY <1>e, <1>k, RunGoesOn DEF InstallPcs, Early
<1>g. /\ install.pc = "undo" /\ UNCHANGED <<disk, sound, updater, updateState, told, before, late, cut>>
      /\ services' = [services EXCEPT !.panel = NoPiece,
                        !.panelBoots = IF install.existing THEN @ ELSE FALSE,
                        !.kixdns = IF install.changed # {} THEN NoPiece ELSE @]
  BY DEF UndoServices, installVars, installHistory, updateRest, installCounts
<1> USE DEF SameRun
<1>1. InstallTypes'
  BY <1>e, <1>k, <1>f, <1>g DEF InstallTypes, ServiceStates, IsRun
<1>2. SavedInv'
  BY <1>e, <1>k, <1>f, <1>g DEF SavedInv, PanelFits, KixdnsFits, ToPut, PanelPieces, ToUndo,
     OtherPiecesInv, IsRun, InstallTypes
<1>3. BeforeInv'
  BY <1>e, <1>k, <1>f, <1>g DEF BeforeInv, SavedInv, InstallTypes, ServiceStates
<1>4. PanelPiecesInv'
  BY <1>e, <1>k, <1>f, <1>g DEF PanelPiecesInv, PanelPieces, Early, ToUndo
<1>5. OtherPiecesInv'
  BY <1>e, <1>k, <1>f, <1>g DEF OtherPiecesInv, SavedInv, Early, ToUndo
<1>6. KixdnsPiecesInv'
  BY <1>e, <1>k, <1>f, <1>g DEF KixdnsPiecesInv, SavedInv, Early, ToUndo
<1>7. ServicesInv'
  BY <1>e, <1>k, <1>f, <1>g DEF ServicesInv, SavedInv, InstallTypes, ServiceStates, Early, IsRun
<1>8. UpdateInv'
  BY <1>e, <1>k, <1>f, <1>g DEF UpdateInv, SavedInv, PanelPiecesInv, PanelPieces
<1>9. InstallAllOrNothing'
  BY <1>e, <1>k, <1>f, <1>g, <1>8 DEF InstallAllOrNothing, UpdateInv, SavedInv, PanelWhole,
     KixdnsAsBefore, KixdnsWhole, Restored
<1>10. PanelFits(disk, services)'
  BY <1>e, <1>k, <1>f, <1>g DEF PanelFits, SavedInv, InstallTypes, ServiceStates
<1>11. KixdnsFits(disk, services)'
  BY <1>e, <1>k, <1>f, <1>g DEF KixdnsFits, SavedInv, InstallTypes, ServiceStates
<1>12. (~Running => cut \/ OneRelease(disk, services))'
  BY <1>e, <1>k, <1>f, <1>g DEF SavedInv
<1> QED
  BY <1>1, <1>2, <1>3, <1>4, <1>5, <1>6, <1>7, <1>8, <1>9, <1>10, <1>11, <1>12

LEMMA KixdnsIsUndone == ASSUME InstallInv, UndoKixdns PROVE InstallInv'
<1> USE InstallAssumption, NoRelease DEF InstallAssumption, InstallInv, Running
<1>f. /\ IsRun(install)' /\ SameRun /\ install'.pc = "restart" /\ install'.left = install.left
      /\ install'.created = install.created /\ install'.stored = install.stored
  BY RunMoves DEF UndoKixdns, GoTo, InstallPcs, Early
<1>g. /\ install.pc = "back" /\ install.left = {}
      /\ UNCHANGED <<sound, updater, updateState, told, before, late, cut>>
  BY DEF UndoKixdns, installVars, installHistory, updateRest, installCounts
<1> USE DEF SameRun
<1>s. services' = IF install.created \/ install.changed # {} THEN Resumed(install, disk)
                 ELSE services
  BY DEF UndoKixdns
<1>d. /\ disk' = [p \in Pieces |-> IF p = "external" /\ install.created THEN NoPiece ELSE disk[p]]
  <2>1. CASE install.created
    <3>1. disk' = [disk EXCEPT !["external"] = NoPiece]
      BY <2>1 DEF UndoKixdns
    <3>2. IsDisk(disk) /\ "external" \in Pieces
      BY DEF InstallTypes, Pieces
    <3> QED
      BY <2>1, <3>1, <3>2, DiskMoves
  <2>2. CASE ~install.created
    BY <2>2 DEF UndoKixdns, InstallTypes, IsDisk
  <2> QED
    BY <2>1, <2>2
<1>h. /\ services' \in ServiceStates
      /\ services'.panel = services.panel /\ services'.panelBoots = services.panelBoots
      /\ services'.kixdnsBoots = install.saved.services.kixdnsBoots
      /\ services'.kixdnsBoots = services.kixdnsBoots
      /\ ~install.created /\ install.changed = {} => services' = services
      /\ install.created \/ install.changed # {} =>
           services'.kixdns = IF install.saved.services.kixdns = NoPiece THEN NoPiece
                              ELSE StartsKixdns(disk)
  <2>1. services \in ServiceStates /\ IsHost(install.saved)
        /\ StartsKixdns(disk) \in {NoPiece, 1, 2, 3, Original}
        /\ services.kixdnsBoots = install.saved.services.kixdnsBoots
    BY <1>g DEF InstallTypes, SavedInv, IsDisk, StartsKixdns, ServicesInv
  <2>2. install.kind = "fresh" => install.saved.services.kixdns = NoPiece /\ ~install.saved.services.kixdnsBoots
    <3>1. install.kind = "fresh" => ~install.existing /\ install.saved.disk.kunit = NoPiece
      BY <1>g DEF SavedInv
    <3>2. install.existing = (install.saved.disk.server # NoPiece /\ install.saved.disk.env # NoPiece)
          /\ KixdnsFits(install.saved.disk, install.saved.services)
      BY <1>g DEF SavedInv
    <3> QED
      BY <2>1, <3>1, <3>2 DEF KixdnsFits, IsHost, ServiceStates
  <2>3. CASE ~(install.created \/ install.changed # {})
    BY <1>g, <1>s, <2>1, <2>3 DEF ServicesInv
  <2>4. CASE install.created \/ install.changed # {}
    <3>1. install.saved.services.kixdnsBoots \in BOOLEAN
      BY <2>1 DEF IsHost, ServiceStates
    <3>2. CASE install.kind = "fresh"
      BY <1>s, <2>1, <2>2, <2>4, <3>1, <3>2 DEF Resumed, ServiceStates
    <3>3. CASE install.kind # "fresh"
      BY <1>s, <2>1, <2>4, <3>1, <3>3 DEF Resumed, ServiceStates
    <3> QED
      BY <3>2, <3>3
  <2> QED
    BY <2>3, <2>4
<1>i. install.created \/ install.changed # {} =>
        \/ late \/ install.kind = "panel-only"
        \/ services'.kixdns = install.saved.services.kixdns
        \/ services'.kixdns = NoPiece /\ install.saved.disk.config = NoPiece
  <2> SUFFICES ASSUME install.created \/ install.changed # {}, ~late, install.kind # "panel-only",
                      install.saved.services.kixdns # NoPiece
               PROVE  \/ StartsKixdns(disk) = install.saved.services.kixdns
                      \/ StartsKixdns(disk) = NoPiece /\ install.saved.disk.config = NoPiece
    BY <1>h
  <2>1. install.changed = {p \in {"kernel", "kunit"} : install.saved.disk[p] # 2}
        /\ KixdnsFits(install.saved.disk, install.saved.services)
    BY <1>g DEF SavedInv
  <2>2. \A p \in {"config", "kunit", "kernel"} : disk[p] = install.saved.disk[p]
    BY <1>g, <2>1 DEF KixdnsPiecesInv
  <2>3. disk.resolver = install.saved.disk.resolver
    BY <1>g DEF OtherPiecesInv
  <2> QED
    BY <2>1, <2>2, <2>3 DEF KixdnsFits, StartsKixdns
<1> USE DEF Pieces, PanelPieces, KixdnsPieces
<1>1. InstallTypes'
  BY <1>f, <1>g, <1>s, <1>d, <1>h, <1>i DEF InstallTypes, IsDisk
<1>2. SavedInv'
  BY <1>f, <1>g, <1>s, <1>d, <1>h, <1>i DEF SavedInv, PanelFits, KixdnsFits, ToPut, PanelPieces
<1>3. BeforeInv'
  BY <1>f, <1>g, <1>s, <1>d, <1>h, <1>i DEF BeforeInv, SavedInv
<1>4. PanelPiecesInv'
  BY <1>f, <1>g, <1>s, <1>d, <1>h, <1>i DEF PanelPiecesInv, PanelPieces, Early
<1>5. OtherPiecesInv'
  BY <1>f, <1>g, <1>s, <1>d, <1>h, <1>i DEF OtherPiecesInv, SavedInv, Early
<1>6. KixdnsPiecesInv'
  BY <1>f, <1>g, <1>s, <1>d, <1>h, <1>i DEF KixdnsPiecesInv, SavedInv, Early
<1>7. ServicesInv'
  BY <1>f, <1>g, <1>s, <1>d, <1>h, <1>i DEF ServicesInv, SavedInv, InstallTypes, ServiceStates,
     Early, StartsKixdns, KixdnsFits, KixdnsPiecesInv
<1>8. UpdateInv'
  BY <1>f, <1>g, <1>s, <1>d, <1>h, <1>i DEF UpdateInv, SavedInv, PanelPiecesInv, PanelPieces
<1>9. InstallAllOrNothing'
  BY <1>f, <1>g, <1>s, <1>d, <1>h, <1>i, <1>8 DEF InstallAllOrNothing, UpdateInv, SavedInv,
     PanelWhole, KixdnsAsBefore, KixdnsWhole, Restored
<1>10. PanelFits(disk, services)'
  BY <1>f, <1>g, <1>s, <1>d, <1>h, <1>i DEF PanelFits, SavedInv, MayStart
<1>11. KixdnsFits(disk, services)'
  <2>1. services'.kixdnsBoots /\ disk'.kunit = NoPiece => disk'.server = 2 /\ disk'.env = 2
    BY <1>g, <1>d, <1>h DEF KixdnsFits
  <2>2. CASE services'.kixdns = services.kixdns
    BY <1>g, <1>d, <2>1, <2>2 DEF KixdnsFits
  <2>3. CASE services'.kixdns = StartsKixdns(disk)
    BY <1>g, <1>d, <2>1, <2>3 DEF KixdnsFits, StartsKixdns, InstallTypes, IsDisk
  <2>4. CASE services'.kixdns = NoPiece
    BY <2>1, <2>4 DEF KixdnsFits
  <2> QED
    BY <1>h, <2>2, <2>3, <2>4
<1>12. (~Running => cut \/ OneRelease(disk, services))'
  BY <1>f, <1>g, <1>s, <1>d, <1>h, <1>i DEF SavedInv
<1> QED
  BY <1>1, <1>2, <1>3, <1>4, <1>5, <1>6, <1>7, <1>8, <1>9, <1>10, <1>11, <1>12

LEMMA ServicesAreEnabled == ASSUME InstallInv, EnableServices PROVE InstallInv'
<1> USE InstallAssumption, NoRelease DEF InstallAssumption, InstallInv, Running
<1>f. /\ IsRun(install)' /\ SameRun /\ install'.pc = "start" /\ install'.left = install.left
      /\ install'.created = install.created /\ install'.stored = install.stored
  BY RunMoves DEF EnableServices, GoTo, InstallPcs, Early
<1>g. /\ install.pc = "put" /\ install.left = {}
      /\ UNCHANGED <<disk, sound, updater, updateState, told, before, late, cut>>
  BY DEF EnableServices, installVars, installHistory, updateRest, installCounts
<1> USE DEF SameRun
<1>s. services' = [(IF install.changed # {} THEN Resumed(install, disk) ELSE services)
                     EXCEPT !.panelBoots = TRUE]
  BY DEF EnableServices
<1>h. /\ services' \in ServiceStates
      /\ services'.panel = services.panel /\ services'.panelBoots
      /\ services'.kixdnsBoots = install.saved.services.kixdnsBoots
      /\ services'.kixdnsBoots = services.kixdnsBoots
      /\ install.changed = {} => services'.kixdns = services.kixdns
      /\ install.changed # {} =>
           services'.kixdns = IF install.saved.services.kixdns = NoPiece THEN NoPiece
                              ELSE StartsKixdns(disk)
  <2>1. services \in ServiceStates /\ IsHost(install.saved)
        /\ StartsKixdns(disk) \in {NoPiece, 1, 2, 3, Original}
        /\ services.kixdnsBoots = install.saved.services.kixdnsBoots
    BY <1>g DEF InstallTypes, SavedInv, IsDisk, StartsKixdns, ServicesInv
  <2>2. install.kind = "fresh" => install.saved.services.kixdns = NoPiece /\ ~install.saved.services.kixdnsBoots
    <3>1. install.kind = "fresh" => ~install.existing /\ install.saved.disk.kunit = NoPiece
      BY <1>g DEF SavedInv
    <3>2. install.existing = (install.saved.disk.server # NoPiece /\ install.saved.disk.env # NoPiece)
          /\ KixdnsFits(install.saved.disk, install.saved.services)
      BY <1>g DEF SavedInv
    <3> QED
      BY <2>1, <3>1, <3>2 DEF KixdnsFits, IsHost, ServiceStates
  <2>3. CASE install.changed = {}
    BY <1>g, <1>s, <2>1, <2>3 DEF ServicesInv, ServiceStates
  <2>4. CASE install.changed # {}
    <3>1. install.saved.services.kixdnsBoots \in BOOLEAN
      BY <2>1 DEF IsHost, ServiceStates
    <3>2. CASE install.kind = "fresh"
      BY <1>s, <2>1, <2>2, <2>4, <3>1, <3>2 DEF Resumed, ServiceStates
    <3>3. CASE install.kind # "fresh"
      BY <1>s, <2>1, <2>4, <3>1, <3>3 DEF Resumed, ServiceStates
    <3> QED
      BY <3>2, <3>3
  <2> QED
    BY <2>3, <2>4
<1> USE DEF Pieces, PanelPieces, KixdnsPieces
<1>1. InstallTypes'
  BY <1>f, <1>g, <1>s, <1>h DEF InstallTypes
<1>2. SavedInv'
  BY <1>f, <1>g, <1>s, <1>h DEF SavedInv, PanelFits, KixdnsFits, ToPut, PanelPieces
<1>3. BeforeInv'
  BY <1>f, <1>g, <1>s, <1>h DEF BeforeInv, SavedInv
<1>4. PanelPiecesInv'
  BY <1>f, <1>g, <1>s, <1>h DEF PanelPiecesInv, PanelPieces, Early
<1>5. OtherPiecesInv'
  BY <1>f, <1>g, <1>s, <1>h DEF OtherPiecesInv, SavedInv, Early
<1>6. KixdnsPiecesInv'
  BY <1>f, <1>g, <1>s, <1>h DEF KixdnsPiecesInv, SavedInv, Early
<1>7. ServicesInv'
  BY <1>f, <1>g, <1>s, <1>h DEF ServicesInv, SavedInv, InstallTypes, ServiceStates, Early,
     StartsKixdns, KixdnsFits, KixdnsPiecesInv
<1>8. UpdateInv'
  BY <1>f, <1>g, <1>s, <1>h DEF UpdateInv, SavedInv, PanelPiecesInv, PanelPieces
<1>9. InstallAllOrNothing'
  BY <1>f, <1>g, <1>s, <1>h, <1>8 DEF InstallAllOrNothing, UpdateInv, SavedInv, PanelWhole,
     KixdnsAsBefore, KixdnsWhole, Restored
<1>10. PanelFits(disk, services)'
  BY <1>f, <1>g, <1>s, <1>h DEF PanelFits, SavedInv
<1>11. KixdnsFits(disk, services)'
  <2>1. services'.kixdnsBoots /\ disk'.kunit = NoPiece => disk'.server = 2 /\ disk'.env = 2
    BY <1>g, <1>h DEF KixdnsFits
  <2>2. CASE services'.kixdns = services.kixdns
    BY <1>g, <2>1, <2>2 DEF KixdnsFits
  <2>3. CASE services'.kixdns = StartsKixdns(disk)
    BY <1>g, <2>1, <2>3 DEF KixdnsFits, StartsKixdns, InstallTypes, IsDisk
  <2>4. CASE services'.kixdns = NoPiece
    BY <2>1, <2>4 DEF KixdnsFits
  <2> QED
    BY <1>h, <2>2, <2>3, <2>4
<1>12. (~Running => cut \/ OneRelease(disk, services))'
  BY <1>f, <1>g, <1>s, <1>h DEF SavedInv
<1> QED
  BY <1>1, <1>2, <1>3, <1>4, <1>5, <1>6, <1>7, <1>8, <1>9, <1>10, <1>11, <1>12

LEMMA NewPanelStarts == ASSUME InstallInv, StartNewPanel PROVE InstallInv'
<1> USE InstallAssumption, NoRelease DEF InstallAssumption, InstallInv, Running
<1>f. /\ IsRun(install)' /\ SameRun /\ install'.pc = "verify" /\ install'.left = install.left
      /\ install'.created = install.created /\ install'.stored = install.stored
  BY RunMoves DEF StartNewPanel, GoTo, InstallPcs, Early
<1>g. /\ install.pc = "start"
      /\ UNCHANGED <<sound, updater, updateState, told, before, late, cut>>
  BY DEF StartNewPanel, installVars, installHistory, updateRest, installCounts
<1> USE DEF SameRun
<1>d. PICK start \in StartsPanel(disk) :
        /\ services' = [services EXCEPT !.panel = start.up]
        /\ disk' = [disk EXCEPT !["database"] = start.database]
  BY DEF StartNewPanel, PanelComesUp
<1>h. PICK up \in {NoPiece, 1, 2}, database \in {NoPiece, 1, 2} :
        /\ services' = [services EXCEPT !.panel = up]
        /\ disk' = [p \in Pieces |-> IF p = "database" THEN database ELSE disk[p]]
        /\ up # NoPiece => /\ up = disk.server /\ database = disk.server /\ MayStart(disk)
                           /\ (up = 2 => "panel" \in sound)
  <2>1. IsDisk(disk) /\ "database" \in Pieces
    BY DEF InstallTypes, Pieces
  <2>2. disk' = [p \in Pieces |-> IF p = "database" THEN start.database ELSE disk[p]]
    BY <1>d, <2>1, DiskMoves
  <2>3. start.up \in {NoPiece, 1, 2} /\ start.database \in {NoPiece, 1, 2}
        /\ (start.up # NoPiece => /\ start.up = disk.server /\ start.database = disk.server
                                  /\ MayStart(disk) /\ (start.up = 2 => "panel" \in sound))
    BY <1>d, <2>1 DEF StartsPanel, IsDisk, PanelPieces
  <2> QED
    BY <1>d, <2>2, <2>3
<1> USE DEF Pieces, PanelPieces, KixdnsPieces
<1>t. services' \in ServiceStates
  BY <1>h DEF InstallTypes, ServiceStates
<1>u. IsDisk(disk)'
  BY <1>h DEF InstallTypes, IsDisk
<1>1. InstallTypes'
  BY <1>f, <1>g, <1>d, <1>h, <1>t, <1>u DEF InstallTypes, Early
<1>2. SavedInv'
  BY <1>f, <1>g, <1>d, <1>h, <1>t, <1>u DEF SavedInv, PanelFits, KixdnsFits, ToPut, PanelPieces
<1>3. BeforeInv'
  BY <1>f, <1>g, <1>d, <1>h, <1>t, <1>u DEF BeforeInv, SavedInv, InstallTypes, ServiceStates
<1>4. PanelPiecesInv'
  BY <1>f, <1>g, <1>d, <1>h, <1>t, <1>u DEF PanelPiecesInv, PanelPieces, Early
<1>5. OtherPiecesInv'
  BY <1>f, <1>g, <1>d, <1>h, <1>t, <1>u DEF OtherPiecesInv, SavedInv, Early
<1>6. KixdnsPiecesInv'
  BY <1>f, <1>g, <1>d, <1>h, <1>t, <1>u DEF KixdnsPiecesInv, SavedInv, Early
<1>7. ServicesInv'
  BY <1>f, <1>g, <1>d, <1>h, <1>t, <1>u DEF ServicesInv, SavedInv, InstallTypes, ServiceStates,
     Early
<1>8. UpdateInv'
  BY <1>f, <1>g, <1>d, <1>h, <1>t, <1>u DEF UpdateInv, SavedInv, PanelPiecesInv, PanelPieces
<1>9. InstallAllOrNothing'
  BY <1>f, <1>g, <1>d, <1>h, <1>t, <1>u, <1>8 DEF InstallAllOrNothing, UpdateInv, SavedInv,
     PanelWhole, KixdnsAsBefore, KixdnsWhole, Restored
<1>10. PanelFits(disk, services)'
  BY <1>f, <1>g, <1>d, <1>h, <1>t, <1>u DEF PanelFits, SavedInv, InstallTypes, ServiceStates,
     MayStart, IsDisk
<1>11. KixdnsFits(disk, services)'
  BY <1>f, <1>g, <1>d, <1>h, <1>t, <1>u DEF KixdnsFits, SavedInv, InstallTypes, ServiceStates
<1>12. (~Running => cut \/ OneRelease(disk, services))'
  BY <1>f, <1>g, <1>d, <1>h, <1>t, <1>u DEF SavedInv
<1> QED
  BY <1>1, <1>2, <1>3, <1>4, <1>5, <1>6, <1>7, <1>8, <1>9, <1>10, <1>11, <1>12

LEMMA InstallerIsKilled == ASSUME InstallInv, InstallerKilled PROVE InstallInv'
<1> USE InstallAssumption, NoRelease DEF InstallAssumption, InstallInv, Running
<1>f. IsRun(install)' /\ ~Running'
  BY RunEnded DEF InstallerKilled, RunEnds
<1>g. /\ Running /\ cut' = TRUE /\ told' = "nothing" /\ updater' = IF updater # "wait" THEN updater ELSE "failed"
      /\ UNCHANGED <<disk, services, sound, updateState, before, late>>
  BY DEF InstallerKilled, RunEnds
<1>1. InstallTypes'
  BY <1>f, <1>g DEF InstallTypes
<1>2. SavedInv'
  BY <1>f DEF SavedInv
<1>3. BeforeInv'
  BY <1>f DEF BeforeInv
<1>4. PanelPiecesInv'
  BY <1>f DEF PanelPiecesInv
<1>5. OtherPiecesInv'
  BY <1>f DEF OtherPiecesInv
<1>6. KixdnsPiecesInv'
  BY <1>f DEF KixdnsPiecesInv
<1>7. ServicesInv'
  BY <1>f DEF ServicesInv
<1>8. UpdateInv'
  BY <1>f, <1>g DEF UpdateInv, SavedInv, PanelPiecesInv, PanelPieces
<1>9. InstallAllOrNothing'
  BY <1>f, <1>g, <1>8 DEF InstallAllOrNothing, UpdateInv, SavedInv, PanelWhole, KixdnsAsBefore,
     KixdnsWhole, Restored
<1>10. PanelFits(disk, services)'
  BY <1>f, <1>g DEF PanelFits, SavedInv
<1>11. KixdnsFits(disk, services)'
  BY <1>f, <1>g DEF KixdnsFits, SavedInv
<1>12. (~Running => cut \/ OneRelease(disk, services))'
  BY <1>f, <1>g DEF SavedInv
<1> QED
  BY <1>1, <1>2, <1>3, <1>4, <1>5, <1>6, <1>7, <1>8, <1>9, <1>10, <1>11, <1>12

LEMMA PowerGoes == ASSUME InstallInv, PowerLoss PROVE InstallInv'
<1> USE InstallAssumption, NoRelease DEF InstallAssumption, InstallInv, Running
<1>f. IsRun(install)' /\ ~Running'
  BY RunEnded DEF PowerLoss
<1>g. /\ Running /\ cut' = TRUE /\ told' = "nothing" /\ updater' = "idle"
      /\ UNCHANGED <<sound, updateState, before, late>>
  BY DEF PowerLoss
<1>d. PICK start \in StartsPanel(disk) \union {[up |-> NoPiece, database |-> disk.database]} :
        /\ disk' = [disk EXCEPT !["database"] = start.database]
        /\ services' = [services EXCEPT !.panel = start.up,
                          !.kixdns = IF services.kixdnsBoots THEN StartsKixdns(disk) ELSE NoPiece]
  BY DEF PowerLoss
<1>h. PICK up \in {NoPiece, 1, 2}, database \in {NoPiece, 1, 2} :
        /\ services' = [services EXCEPT !.panel = up,
                          !.kixdns = IF services.kixdnsBoots THEN StartsKixdns(disk) ELSE NoPiece]
        /\ disk' = [p \in Pieces |-> IF p = "database" THEN database ELSE disk[p]]
        /\ up # NoPiece => /\ up = disk.server /\ database = disk.server /\ MayStart(disk)
                           /\ (up = 2 => "panel" \in sound)
  <2>1. IsDisk(disk) /\ "database" \in Pieces
    BY DEF InstallTypes, Pieces
  <2>2. disk' = [p \in Pieces |-> IF p = "database" THEN start.database ELSE disk[p]]
    BY <1>d, <2>1, DiskMoves
  <2>3. start.up \in {NoPiece, 1, 2} /\ start.database \in {NoPiece, 1, 2}
        /\ (start.up # NoPiece => /\ start.up = disk.server /\ start.database = disk.server
                                  /\ MayStart(disk) /\ (start.up = 2 => "panel" \in sound))
    BY <1>d, <2>1 DEF StartsPanel, IsDisk, PanelPieces
  <2> QED
    BY <1>d, <2>2, <2>3
<1>s. /\ services' \in ServiceStates /\ services'.panel = up
      /\ services'.kixdns = (IF services.kixdnsBoots THEN StartsKixdns(disk) ELSE NoPiece)
      /\ services'.kixdnsBoots = services.kixdnsBoots /\ services'.panelBoots = services.panelBoots
  BY <1>h DEF InstallTypes, ServiceStates, StartsKixdns, IsDisk
<1>u. /\ disk' = [p \in Pieces |-> IF p = "database" THEN database ELSE disk[p]]
      /\ database \in {NoPiece, 1, 2}
  BY <1>h
<1>v. IsDisk(disk)'
  BY <1>u DEF InstallTypes, IsDisk, Pieces, PanelPieces, KixdnsPieces
<1>w. up # NoPiece => /\ up = disk.server /\ database = disk.server /\ MayStart(disk)
                      /\ (up = 2 => "panel" \in sound)
  BY <1>h
<1>x. StartsKixdns(disk) # NoPiece =>
        /\ disk.kunit # NoPiece
        /\ StartsKixdns(disk) = IF disk.kunit = Original THEN Original ELSE disk.kernel
        /\ disk.kunit # Original =>
             disk.resolver = "off" /\ (StartsKixdns(disk) = 2 => "kixdns" \in sound)
  BY DEF StartsKixdns, InstallTypes, IsDisk
<1>y. KixdnsFits(disk, services)'
  <2>1. services'.kixdnsBoots /\ disk'.kunit = NoPiece => disk'.server = 2 /\ disk'.env = 2
    BY <1>s, <1>u DEF KixdnsFits, Pieces, PanelPieces, KixdnsPieces
  <2>2. disk'.kunit = disk.kunit /\ disk'.kernel = disk.kernel /\ disk'.resolver = disk.resolver
    BY <1>u DEF Pieces, PanelPieces, KixdnsPieces
  <2> QED
    BY <1>g, <1>s, <1>x, <2>1, <2>2 DEF KixdnsFits
<1>z. PanelFits(disk, services)'
  BY <1>g, <1>s, <1>u, <1>w DEF PanelFits, MayStart, Pieces, PanelPieces, KixdnsPieces
<1> USE DEF Pieces, PanelPieces, KixdnsPieces
<1>1. InstallTypes'
  BY <1>f, <1>g, <1>d, <1>h, <1>s, <1>u, <1>v, <1>w, <1>x, <1>y, <1>z DEF InstallTypes
<1>2. SavedInv'
  BY <1>f DEF SavedInv
<1>3. BeforeInv'
  BY <1>f DEF BeforeInv
<1>4. PanelPiecesInv'
  BY <1>f DEF PanelPiecesInv
<1>5. OtherPiecesInv'
  BY <1>f DEF OtherPiecesInv
<1>6. KixdnsPiecesInv'
  BY <1>f DEF KixdnsPiecesInv
<1>7. ServicesInv'
  BY <1>f DEF ServicesInv
<1>8. UpdateInv'
  BY <1>f, <1>g, <1>d, <1>h, <1>s, <1>u, <1>v, <1>w, <1>x, <1>y, <1>z DEF UpdateInv, SavedInv,
     PanelPiecesInv, PanelPieces
<1>9. InstallAllOrNothing'
  BY <1>f, <1>g, <1>d, <1>h, <1>s, <1>u, <1>v, <1>w, <1>x, <1>y, <1>z, <1>8
     DEF InstallAllOrNothing, UpdateInv, SavedInv, PanelWhole, KixdnsAsBefore, KixdnsWhole,
     Restored
<1>10. PanelFits(disk, services)'
  BY <1>z
<1>11. KixdnsFits(disk, services)'
  BY <1>y
<1>12. (~Running => cut \/ OneRelease(disk, services))'
  BY <1>f, <1>g, <1>d, <1>h, <1>s, <1>u, <1>v, <1>w, <1>x, <1>y, <1>z DEF SavedInv
<1> QED
  BY <1>1, <1>2, <1>3, <1>4, <1>5, <1>6, <1>7, <1>8, <1>9, <1>10, <1>11, <1>12

LEMMA InstallBegins == ASSUME InstallInv, Install PROVE InstallInv'
<1> USE InstallAssumption, NoRelease DEF InstallAssumption, InstallInv, Running
<1>a. CASE \E panelOnly, stub \in BOOLEAN : BeginRun(panelOnly, stub)
  <2>1. ~Running /\ updater' = "idle" /\ UNCHANGED <<disk, services, sound, updateState, cut>>
    BY DEF Install
  <2> QED
    BY <1>a, <2>1, RunBegins
<1>b. CASE ~\E panelOnly, stub \in BOOLEAN : BeginRun(panelOnly, stub)
  <2>a. /\ ~Running /\ AlreadyInstalled /\ told' = "already" /\ before' = Host
        /\ UNCHANGED <<disk, services, sound, install, updater, updateState, cut, late>>
    BY <1>b DEF Install
  <2> QED
    BY <2>a, AlreadyThere
<1> QED
  BY <1>a, <1>b

LEMMA InstallerRuns == ASSUME InstallInv, RunInstaller PROVE InstallInv'
<1> USE InstallAssumption, NoRelease DEF InstallAssumption, InstallInv, Running
<1>a. ~Running /\ UNCHANGED <<disk, services, sound, updateState, cut>>
  BY DEF RunInstaller
<1>b. CASE AlreadyInstalled
  <2>1. /\ updater' = "done" /\ told' = "already" /\ before' = Host /\ UNCHANGED <<install, late>>
    BY <1>b DEF RunInstaller
  <2> QED
    BY <1>a, <1>b, <2>1, AlreadyThere
<1>c. CASE ~AlreadyInstalled
  <2>1. updater' = "wait" /\ BeginRun(TRUE, FALSE)
    BY <1>c DEF RunInstaller
  <2> QED
    BY <1>a, <2>1, RunBegins
<1> QED
  BY <1>b, <1>c

LEMMA ServicesAreVerified == ASSUME InstallInv, VerifyServices PROVE InstallInv'
<1> USE InstallAssumption, NoRelease DEF InstallAssumption, InstallInv, Running
<1>a. CASE services.panel = NoPiece \/ (install.restart /\ services.kixdns = NoPiece)
  <2>1. /\ IsRun(install)' /\ SameRun /\ install'.pc = "undo" /\ install'.left = install.left
        /\ install'.created = install.created /\ install'.stored = install.stored
    BY <1>a, RunMoves DEF VerifyServices, GoTo, InstallPcs, Early
  <2>2. /\ install.pc = "verify"
        /\ UNCHANGED <<disk, services, sound, updater, updateState, told, before, late, cut>>
    BY <1>a DEF VerifyServices
  <2> QED
    BY <2>1, <2>2, RunIsCut
<1>b. CASE ~(services.panel = NoPiece \/ (install.restart /\ services.kixdns = NoPiece))
  <2>f. IsRun(install)' /\ ~Running'
    BY <1>b, RunEnded DEF VerifyServices, RunEnds
  <2>g. /\ install.pc = "verify" /\ told' = "installed" /\ cut' = FALSE
        /\ updater' = IF updater # "wait" THEN updater ELSE "done"
        /\ UNCHANGED <<disk, services, sound, updateState, before, late>>
    BY <1>b DEF VerifyServices, RunEnds
  <2>1. PanelWhole /\ \A p \in PanelPieces : disk[p] = 2
    BY <1>b, <2>g DEF PanelPiecesInv, ServicesInv, PanelWhole, PanelFits, PanelPieces
  <2>2. OneRelease(disk, services)
    <3>1. disk.server = 2 /\ 2 # NoPiece
      BY <2>1 DEF PanelPieces
    <3>2. services.panelBoots = TRUE
      <4>1. services.panelBoots \in BOOLEAN
        BY DEF InstallTypes, ServiceStates
      <4> QED
        BY <2>1, <4>1 DEF PanelWhole
    <3> QED
      BY <2>1, <3>1, <3>2 DEF OneRelease
  <2>3. late \/ KixdnsAsBefore \/ KixdnsWhole
    <3>1. CASE install.kind = "panel-only"
      BY <2>g, <3>1 DEF BeforeInv, KixdnsAsBefore
    <3>2. CASE install.kind # "panel-only" /\ ~late
      <4>1. disk.bundle = 2 /\ disk.config # NoPiece /\ disk.kunit = 2 /\ disk.kernel = 2
        BY <2>g, <3>2 DEF KixdnsPiecesInv
      <4>2. services.kixdns = NoPiece <=> before.services.kixdns = NoPiece
        BY <1>b, <2>g, <3>2 DEF ServicesInv, BeforeInv, SavedInv
      <4> QED
        BY <4>1, <4>2 DEF KixdnsWhole
    <3> QED
      BY <3>1, <3>2, <2>g DEF InstallTypes
  <2>4. services.kixdnsBoots = before.services.kixdnsBoots
    BY <2>g DEF ServicesInv, BeforeInv, SavedInv, IsHost, ServiceStates
  <2>5. UpdateInv'
    BY <2>f, <2>g, <2>1 DEF UpdateInv, PanelWhole, PanelPieces, SavedInv
  <2>6. InstallAllOrNothing'
    BY <2>g, <2>1, <2>3, <2>4, <2>5
       DEF InstallAllOrNothing, UpdateInv, PanelWhole, KixdnsAsBefore, KixdnsWhole
  <2>7. InstallTypes'
    BY <2>f, <2>g DEF InstallTypes
  <2>8. PanelFits(disk, services)' /\ KixdnsFits(disk, services)' /\ OneRelease(disk, services)'
    BY <2>g, <2>2 DEF PanelFits, KixdnsFits
  <2> QED
    BY <2>f, <2>5, <2>6, <2>7, <2>8 DEF SavedInv, BeforeInv, PanelPiecesInv, OtherPiecesInv,
       KixdnsPiecesInv, ServicesInv
<1> QED
  BY <1>a, <1>b

LEMMA PanelIsUndone == ASSUME InstallInv, UndoPanel PROVE InstallInv'
<1> USE InstallAssumption, NoRelease DEF InstallAssumption, InstallInv, Running
<1>f. IsRun(install)' /\ ~Running'
  BY RunEnded DEF UndoPanel, RunEnds
<1>g. /\ install.pc = "restart"
      /\ told' = (IF install.existing /\ services'.panel = NoPiece THEN "still down" ELSE "restored")
      /\ updater' = IF updater # "wait" THEN updater ELSE "failed"
      /\ UNCHANGED <<sound, updateState, before, late, cut>>
  BY DEF UndoPanel, RunEnds, installVars, installHistory, updateRest, installCounts
<1>h. PICK up \in {NoPiece, 1, 2}, database \in {NoPiece, 1, 2} :
        /\ services' = [services EXCEPT !.panel = up]
        /\ disk' = [p \in Pieces |-> IF p = "database" THEN database ELSE disk[p]]
        /\ up # NoPiece => /\ up = disk.server /\ database = disk.server /\ MayStart(disk)
                           /\ (up = 2 => "panel" \in sound)
        /\ ~install.existing => up = NoPiece
        /\ install.existing /\ MayStart(disk) /\ (disk.server = 2 => "panel" \in sound) =>
             up = disk.server
  <2>1. IsDisk(disk) /\ "database" \in Pieces /\ services \in ServiceStates
    BY DEF InstallTypes, Pieces
  <2>2. CASE install.existing
    <3>1. PICK start \in StartsPanel(disk) :
            /\ services' = [services EXCEPT !.panel = start.up]
            /\ disk' = [disk EXCEPT !["database"] = start.database]
      BY <2>2 DEF UndoPanel, PanelComesUp
    <3>2. disk' = [p \in Pieces |-> IF p = "database" THEN start.database ELSE disk[p]]
      BY <3>1, <2>1, DiskMoves
    <3>3. /\ start.up \in {NoPiece, 1, 2} /\ start.database \in {NoPiece, 1, 2}
          /\ (start.up # NoPiece => /\ start.up = disk.server /\ start.database = disk.server
                                    /\ MayStart(disk) /\ (start.up = 2 => "panel" \in sound))
      BY <3>1, <2>1 DEF StartsPanel, IsDisk, PanelPieces
    <3>4. MayStart(disk) /\ (disk.server = 2 => "panel" \in sound) => start.up = disk.server
      BY <3>1, <2>1 DEF StartsPanel, IsDisk, PanelPieces, MayStart
    <3> QED
      BY <2>2, <3>1, <3>2, <3>3, <3>4
  <2>3. CASE ~install.existing
    <3>1. services.panel = NoPiece
      BY <1>g DEF ServicesInv
    <3>2. services' = [services EXCEPT !.panel = NoPiece]
      BY <2>1, <2>3, <3>1 DEF UndoPanel, ServiceStates
    <3>3. disk' = [p \in Pieces |-> IF p = "database" THEN disk.database ELSE disk[p]]
      BY <2>1, <2>3 DEF UndoPanel, IsDisk
    <3>4. disk.database \in {NoPiece, 1, 2}
      BY <2>1 DEF IsDisk
    <3> QED
      BY <2>3, <3>2, <3>3, <3>4
  <2> QED
    BY <2>2, <2>3
<1>s. /\ services' \in ServiceStates /\ services'.panel = up
      /\ services'.kixdns = services.kixdns
      /\ services'.kixdnsBoots = services.kixdnsBoots /\ services'.panelBoots = services.panelBoots
  BY <1>h DEF InstallTypes, ServiceStates
<1>u. /\ disk' = [p \in Pieces |-> IF p = "database" THEN database ELSE disk[p]]
      /\ database \in {NoPiece, 1, 2}
  BY <1>h
<1>v. IsDisk(disk)'
  BY <1>u DEF InstallTypes, IsDisk, Pieces, PanelPieces, KixdnsPieces
<1>w. up # NoPiece => /\ up = disk.server /\ database = disk.server /\ MayStart(disk)
                      /\ (up = 2 => "panel" \in sound)
  BY <1>h
<1>x. \A p \in Pieces \ {"config", "kernel", "database"} : disk[p] = install.saved.disk[p]
  <2>1. \A p \in PanelPieces : disk[p] = install.saved.disk[p]
    BY <1>g DEF PanelPiecesInv
  <2>2. disk.resolver = install.saved.disk.resolver /\ disk.external = install.saved.disk.external
    BY <1>g DEF OtherPiecesInv
  <2>3. disk.kunit = install.saved.disk.kunit /\ disk.bundle = install.saved.disk.bundle
    <3>1. CASE install.kind = "panel-only"
      BY <1>g, <3>1 DEF BeforeInv, KixdnsPieces, Pieces
    <3>2. CASE install.kind # "panel-only"
      BY <1>g, <3>2 DEF KixdnsPiecesInv, SavedInv
    <3> QED
      BY <3>1, <3>2
  <2> QED
    BY <2>1, <2>2, <2>3 DEF Pieces, KixdnsPieces
<1>y. late \/ (disk.config = before.disk.config /\ disk.kernel = before.disk.kernel)
  <2>1. CASE install.kind = "panel-only"
    BY <1>g, <2>1 DEF BeforeInv, KixdnsPieces
  <2>2. CASE install.kind # "panel-only"
    <3>1. before = install.saved /\ install.changed = {p \in {"kernel", "kunit"} : install.saved.disk[p] # 2}
      BY <1>g, <2>2 DEF BeforeInv, SavedInv
    <3>2. disk.config = install.saved.disk.config
      BY <1>g, <2>2 DEF KixdnsPiecesInv
    <3>3. CASE "kernel" \in install.changed
      BY <1>g, <2>2, <3>1, <3>2, <3>3 DEF KixdnsPiecesInv
    <3>4. CASE "kernel" \notin install.changed
      BY <1>g, <2>2, <3>1, <3>2, <3>4 DEF KixdnsPiecesInv
    <3> QED
      BY <3>3, <3>4
  <2> QED
    BY <2>1, <2>2
<1>z. late \/ Restored'
  <2> SUFFICES ASSUME ~late PROVE Restored'
    OBVIOUS
  <2>1. \A p \in Pieces : p # "database" => disk'[p] = before.disk[p]
    BY <1>g, <1>u, <1>x, <1>y DEF BeforeInv
  <2>2. disk' = [before'.disk EXCEPT !.database = disk'.database]
    <3>1. IsDisk(before.disk) /\ before' = before /\ "database" \in Pieces
      BY <1>g DEF InstallTypes, IsHost, Pieces
    <3>2. [before.disk EXCEPT !["database"] = disk'.database]
            = [p \in Pieces |-> IF p = "database" THEN disk'.database ELSE before.disk[p]]
      BY <3>1, DiskMoves
    <3>3. disk' = [p \in Pieces |-> disk'[p]]
      BY <1>v DEF IsDisk
    <3>4. disk' = [p \in Pieces |-> IF p = "database" THEN disk'.database ELSE before.disk[p]]
      BY <2>1, <3>3
    <3> QED
      BY <3>1, <3>2, <3>4
  <2>3. \/ services'.kixdns = before.services.kixdns
        \/ services'.kixdns = NoPiece /\ before.disk.config = NoPiece
    BY <1>g, <1>s DEF ServicesInv, BeforeInv, InstallTypes
  <2>4. services'.kixdnsBoots = before.services.kixdnsBoots
    BY <1>g, <1>s DEF ServicesInv, BeforeInv, InstallTypes, SavedInv, IsHost, ServiceStates
  <2>5. cut \/ services'.panelBoots = before.services.panelBoots
    <3>1. cut \/ OneRelease(install.saved.disk, install.saved.services)
      BY <1>g DEF SavedInv
    <3>2. install.existing = (install.saved.disk.server # NoPiece /\ install.saved.disk.env # NoPiece)
          /\ IsHost(install.saved)
      BY <1>g DEF SavedInv
    <3>3. before.services.panelBoots = install.saved.services.panelBoots
      BY <1>g, <3>2 DEF BeforeInv, IsHost, ServiceStates
    <3> QED
      BY <1>g, <1>s, <3>1, <3>2, <3>3 DEF ServicesInv, OneRelease, PanelPieces, InstallTypes,
         ServiceStates, IsHost
  <2> QED
    BY <1>g, <2>2, <2>3, <2>4, <2>5 DEF Restored
<1>q. before.services.panel # NoPiece => /\ up = before.services.panel \/ ~install.existing
                                         /\ install.existing \/ cut
  <2>1. before.services.panel = install.saved.services.panel
    BY <1>g DEF BeforeInv, SavedInv, IsHost, ServiceStates
  <2>2. /\ PanelFits(install.saved.disk, install.saved.services)
        /\ cut \/ OneRelease(install.saved.disk, install.saved.services)
        /\ install.existing = (install.saved.disk.server # NoPiece /\ install.saved.disk.env # NoPiece)
        /\ IsHost(install.saved)
    BY <1>g DEF SavedInv
  <2>3. disk.database = install.saved.disk.database
    BY <1>g DEF OtherPiecesInv, Early
  <2>4. /\ disk.server = install.saved.disk.server /\ disk.web = install.saved.disk.web
        /\ disk.units = install.saved.disk.units
    BY <1>x DEF Pieces, PanelPieces
  <2> QED
    BY <1>h, <2>1, <2>2, <2>3, <2>4 DEF PanelFits, MayStart, OneRelease, PanelPieces
<1> USE DEF Pieces, PanelPieces, KixdnsPieces
<1>1. InstallTypes'
  BY <1>f, <1>g, <1>h, <1>s, <1>u, <1>v, <1>w, <1>x, <1>y, <1>z, <1>q DEF InstallTypes
<1>2. SavedInv'
  BY <1>f DEF SavedInv
<1>3. BeforeInv'
  BY <1>f DEF BeforeInv
<1>4. PanelPiecesInv'
  BY <1>f DEF PanelPiecesInv
<1>5. OtherPiecesInv'
  BY <1>f DEF OtherPiecesInv
<1>6. KixdnsPiecesInv'
  BY <1>f DEF KixdnsPiecesInv
<1>7. ServicesInv'
  BY <1>f DEF ServicesInv
<1>8. UpdateInv'
  <2>1. disk'.server = disk.server /\ disk.server = install.saved.disk.server
    BY <1>u, <1>x
  <2>2. updateState.state = "complete" => cut \/ disk.server = 2
    BY DEF UpdateInv
  <2>3. updater \notin {"wait"} => (updater = "done" => cut \/ disk.server = 2)
    BY DEF UpdateInv
  <2> QED
    BY <1>f, <1>g, <2>1, <2>2, <2>3 DEF UpdateInv
<1>9. InstallAllOrNothing'
  <2>1. told' = "restored" /\ before'.services.panel # NoPiece =>
          cut' \/ services'.panel = before'.services.panel
    BY <1>g, <1>s, <1>q DEF InstallTypes
  <2>2. told' = "still down" => before'.services.panel = NoPiece
    BY <1>g, <1>s, <1>q
  <2> QED
    BY <1>g, <1>z, <1>8, <2>1, <2>2 DEF InstallAllOrNothing, UpdateInv
<1>10. PanelFits(disk, services)'
  BY <1>g, <1>s, <1>u, <1>w DEF PanelFits, MayStart
<1>11. KixdnsFits(disk, services)'
  BY <1>g, <1>s, <1>u DEF KixdnsFits
<1>12. (~Running => cut \/ OneRelease(disk, services))'
  <2>1. cut \/ OneRelease(install.saved.disk, install.saved.services)
    BY <1>g DEF SavedInv
  <2>2. \A p \in PanelPieces : disk'[p] = install.saved.disk[p]
    BY <1>u, <1>x
  <2>3. install.existing = (install.saved.disk.server # NoPiece /\ install.saved.disk.env # NoPiece)
    BY <1>g DEF SavedInv
  <2>4. services'.panelBoots = services.panelBoots
    BY <1>s
  <2>5. /\ install.saved.services.panelBoots /\ install.existing => services.panelBoots
        /\ ~install.existing => ~services.panelBoots
    BY <1>g DEF ServicesInv
  <2>6. {services.panelBoots, install.saved.services.panelBoots} \subseteq BOOLEAN
    BY <1>g DEF SavedInv, IsHost, ServiceStates, InstallTypes
  <2>7. "server" \in PanelPieces /\ "env" \in PanelPieces
    OBVIOUS
  <2> HIDE DEF PanelPieces
  <2> QED
    BY <1>g, <2>1, <2>2, <2>3, <2>4, <2>5, <2>6, <2>7 DEF OneRelease
<1> QED
  BY <1>1, <1>2, <1>3, <1>4, <1>5, <1>6, <1>7, <1>8, <1>9, <1>10, <1>11, <1>12

LEMMA PieceIsPut == ASSUME InstallInv, PutPiece PROVE InstallInv'
<1> USE InstallAssumption, NoRelease DEF InstallAssumption, InstallInv, Running
<1>g. /\ install.pc = "put" /\ UNCHANGED <<services, sound, updater, updateState, told, before, late, cut>>
  BY DEF PutPiece, installVars, installHistory, updateRest, installCounts
<1>p. PICK p \in Pieces :
        LET aside == p \in {"web", "geo"} /\ disk[p] # NoPiece /\ disk[p] # 2 IN
          /\ IsNext(p, PutOrder)
          /\ disk' = [disk EXCEPT ![p] =
                        CASE p = "resolver" -> "off"
                          [] p = "config" -> IF @ = NoPiece THEN 0 ELSE @
                          [] aside -> NoPiece
                          [] OTHER -> 2]
          /\ install' = IF aside THEN install ELSE [install EXCEPT !.left = @ \ {p}]
  BY DEF PutPiece
<1> DEFINE aside == p \in {"web", "geo"} /\ disk[p] # NoPiece /\ disk[p] # 2
           piece == CASE p = "resolver" -> "off"
                      [] p = "config" -> IF disk[p] = NoPiece THEN 0 ELSE disk[p]
                      [] aside -> NoPiece
                      [] OTHER -> 2
           left == IF aside THEN install.left ELSE install.left \ {p}
<1>q. /\ p \in install.left /\ p \in ToPut(install)
      /\ p = "kunit" => "server" \notin install.left /\ "env" \notin install.left
  BY <1>g, <1>p DEF IsNext, PutOrder, SavedInv
<1>c. disk.config \in {NoPiece, 0, 1, 2}
  BY DEF InstallTypes, IsDisk
<1>v. /\ p = "resolver" => piece = "off"
      /\ p = "config" => piece # NoPiece /\ piece \in {0, 1, 2}
      /\ p \notin {"resolver", "config"} => piece = 2 \/ (p \in {"web", "geo"} /\ piece = NoPiece /\ p \in left)
      /\ install.left \ {p} \subseteq left /\ left \subseteq install.left
  BY <1>q, <1>c
<1>e. install' = [pc |-> install.pc, kind |-> install.kind, existing |-> install.existing,
                  changed |-> install.changed, restart |-> install.restart,
                  stub |-> install.stub, created |-> install.created, saved |-> install.saved,
                  stored |-> install.stored, left |-> left]
  <2>1. CASE aside
    BY <1>p, <2>1, RunIs
  <2>2. CASE ~aside
    BY <1>p, <2>2, RunIs
  <2> QED
    BY <2>1, <2>2
<1>d. disk' = [q \in Pieces |-> IF q = p THEN piece ELSE disk[q]]
  <2>1. disk' = [disk EXCEPT ![p] = piece]
    BY <1>p DEF InstallTypes, IsDisk
  <2>2. IsDisk(disk)
    BY DEF InstallTypes
  <2> HIDE DEF piece
  <2> QED
    BY <2>1, <2>2, DiskMoves
<1> HIDE DEF aside, piece, left
<1>k. left \in SUBSET Pieces /\ install.created \in BOOLEAN /\ install.stored \in BOOLEAN
      /\ install.pc \in InstallPcs
  BY <1>v DEF InstallTypes, IsRun
<1>f. /\ IsRun(install)' /\ SameRun /\ install'.pc = install.pc /\ install'.left = left
      /\ install'.created = install.created /\ install'.stored = install.stored
  BY <1>e, <1>k, RunGoesOn
<1>t. p \in PanelPieces \/ p \in install.changed \/ (p = "resolver" /\ install.stub)
      \/ (p \in {"bundle", "config"} /\ install.kind # "panel-only")
  BY <1>q DEF ToPut
<1>n. install.changed \subseteq {"kernel", "kunit"} /\ (install.kind = "panel-only" => install.changed = {})
  BY <1>g DEF InstallTypes, IsRun, SavedInv
<1>u. IsDisk(disk)'
  BY <1>d, <1>v, <1>t, <1>n DEF InstallTypes, IsDisk, PanelPieces, KixdnsPieces, Pieces
<1> USE DEF SameRun, Pieces, PanelPieces, KixdnsPieces
<1>1. InstallTypes'
  BY <1>g, <1>p, <1>q, <1>c, <1>v, <1>e, <1>d, <1>k, <1>f, <1>t, <1>n, <1>u DEF InstallTypes
<1>2. SavedInv'
  BY <1>g, <1>p, <1>q, <1>c, <1>v, <1>e, <1>d, <1>k, <1>f, <1>t, <1>n, <1>u DEF SavedInv,
     PanelFits, KixdnsFits, ToPut, PanelPieces
<1>3. BeforeInv'
  BY <1>g, <1>p, <1>q, <1>c, <1>v, <1>e, <1>d, <1>k, <1>f, <1>t, <1>n, <1>u DEF BeforeInv,
     SavedInv
<1>4. PanelPiecesInv'
  BY <1>g, <1>p, <1>q, <1>c, <1>v, <1>e, <1>d, <1>k, <1>f, <1>t, <1>n, <1>u DEF PanelPiecesInv,
     PanelPieces, Early
<1>5. OtherPiecesInv'
  BY <1>g, <1>p, <1>q, <1>c, <1>v, <1>e, <1>d, <1>k, <1>f, <1>t, <1>n, <1>u DEF OtherPiecesInv,
     SavedInv, Early
<1>6. KixdnsPiecesInv'
  <2> SUFFICES ASSUME install.kind # "panel-only" PROVE KixdnsPiecesInv'
    BY <1>f DEF KixdnsPiecesInv
  <2>1. install'.pc = "put" /\ install'.changed = install.changed /\ install'.saved = install.saved
    BY <1>f, <1>g
  <2>2. \A q \in {"bundle", "config"} \union install.changed : q \notin left =>
          IF q = "config" THEN disk'[q] # NoPiece ELSE disk'[q] = 2
    BY <1>d, <1>g, <1>v, <1>n DEF KixdnsPiecesInv
  <2>3. "kunit" \notin install.changed => disk'.kunit = 2
    BY <1>d, <1>t, <1>g DEF KixdnsPiecesInv
  <2>4. "kernel" \notin install.changed => late \/ disk'.kernel = 2
    BY <1>d, <1>t, <1>g DEF KixdnsPiecesInv
  <2>5. disk'.kunit # install.saved.disk.kunit => disk'.server = 2 /\ disk'.env = 2
    <3>1. CASE p = "kunit"
      BY <1>d, <1>g, <1>q, <3>1 DEF PanelPiecesInv
    <3>2. CASE p # "kunit"
      BY <1>d, <1>g, <1>v, <3>2 DEF KixdnsPiecesInv
    <3> QED
      BY <3>1, <3>2
  <2> QED
    BY <1>f, <1>g, <2>1, <2>2, <2>3, <2>4, <2>5 DEF KixdnsPiecesInv, Early
<1>7. ServicesInv'
  BY <1>g, <1>p, <1>q, <1>c, <1>v, <1>e, <1>d, <1>k, <1>f, <1>t, <1>n, <1>u DEF ServicesInv,
     SavedInv, InstallTypes, ServiceStates, Early
<1>8. UpdateInv'
  BY <1>g, <1>p, <1>q, <1>c, <1>v, <1>e, <1>d, <1>k, <1>f, <1>t, <1>n, <1>u DEF UpdateInv,
     SavedInv, PanelPiecesInv, PanelPieces
<1>9. InstallAllOrNothing'
  BY <1>g, <1>p, <1>q, <1>c, <1>v, <1>e, <1>d, <1>k, <1>f, <1>t, <1>n, <1>u, <1>8
     DEF InstallAllOrNothing, UpdateInv, SavedInv, PanelWhole, KixdnsAsBefore, KixdnsWhole,
     Restored
<1>10. PanelFits(disk, services)'
  BY <1>g, <1>p, <1>q, <1>c, <1>v, <1>e, <1>d, <1>k, <1>f, <1>t, <1>n, <1>u DEF PanelFits,
     SavedInv, ServicesInv
<1>11. KixdnsFits(disk, services)'
  <2>1. services'.kixdns # NoPiece =>
          disk'.kunit = disk.kunit /\ disk'.kernel = disk.kernel
    BY <1>d, <1>g, <1>t, <1>n DEF ServicesInv
  <2>2. services'.kixdns # NoPiece => disk'.kunit = Original \/ disk'.resolver = "off"
    <3>1. services'.kixdns # NoPiece => install.saved.services.kixdns # NoPiece
      BY <1>g DEF ServicesInv
    <3>2. services'.kixdns # NoPiece => disk.kunit = install.saved.disk.kunit
      BY <1>g, <2>1 DEF ServicesInv, KixdnsPiecesInv, SavedInv, BeforeInv
    <3> QED
      BY <1>d, <1>g, <1>t, <1>v, <2>1, <3>1, <3>2 DEF KixdnsFits, SavedInv
  <2>3. services'.kixdnsBoots /\ disk'.kunit = NoPiece => disk'.server = 2 /\ disk'.env = 2
    <3>1. CASE disk'.kunit = install.saved.disk.kunit
      BY <1>4, <1>f, <1>g, <3>1 DEF PanelPiecesInv, SavedInv, KixdnsFits, ServicesInv
    <3>2. CASE disk'.kunit # install.saved.disk.kunit
      BY <1>3, <1>6, <1>f, <1>g, <3>2 DEF KixdnsPiecesInv, BeforeInv
    <3> QED
      BY <3>1, <3>2
  <2> QED
    BY <1>g, <2>1, <2>2, <2>3 DEF KixdnsFits
<1>12. (~Running => cut \/ OneRelease(disk, services))'
  BY <1>g, <1>p, <1>q, <1>c, <1>v, <1>e, <1>d, <1>k, <1>f, <1>t, <1>n, <1>u DEF SavedInv
<1> QED
  BY <1>1, <1>2, <1>3, <1>4, <1>5, <1>6, <1>7, <1>8, <1>9, <1>10, <1>11, <1>12

LEMMA PieceIsUndone == ASSUME InstallInv, UndoPiece PROVE InstallInv'
<1> USE InstallAssumption, NoRelease DEF InstallAssumption, InstallInv, Running
<1>g. /\ install.pc = "back" /\ UNCHANGED <<services, sound, updater, updateState, told, before, late, cut>>
  BY DEF UndoPiece, installVars, installHistory, updateRest, installCounts
<1>p. PICK p \in Pieces :
        LET gone == disk[p] # NoPiece /\ disk[p] # install.saved.disk[p] /\ p # "resolver" IN
          /\ IsNext(p, UndoOrder)
          /\ disk' = [disk EXCEPT ![p] = IF gone THEN NoPiece ELSE install.saved.disk[p]]
          /\ install' = IF gone THEN install ELSE [install EXCEPT !.left = @ \ {p}]
  BY DEF UndoPiece
<1> DEFINE gone == disk[p] # NoPiece /\ disk[p] # install.saved.disk[p] /\ p # "resolver"
           piece == IF gone THEN NoPiece ELSE install.saved.disk[p]
           left == IF gone THEN install.left ELSE install.left \ {p}
<1>q. /\ p \in install.left /\ p \in ToPut(install) \union {"database"}
      /\ p \in {"server", "env"} => "kunit" \notin install.left
  BY <1>g, <1>p DEF IsNext, UndoOrder, SavedInv
<1>v. /\ piece = install.saved.disk[p] \/ (piece = NoPiece /\ disk[p] # install.saved.disk[p] /\ p # "resolver" /\ p \in left)
      /\ p \notin left => piece = install.saved.disk[p]
      /\ install.left \ {p} \subseteq left /\ left \subseteq install.left
  BY <1>q
<1>e. install' = [pc |-> install.pc, kind |-> install.kind, existing |-> install.existing,
                  changed |-> install.changed, restart |-> install.restart,
                  stub |-> install.stub, created |-> install.created, saved |-> install.saved,
                  stored |-> install.stored, left |-> left]
  <2>1. CASE gone
    BY <1>p, <2>1, RunIs
  <2>2. CASE ~gone
    BY <1>p, <2>2, RunIs
  <2> QED
    BY <2>1, <2>2
<1>d. disk' = [q \in Pieces |-> IF q = p THEN piece ELSE disk[q]]
  <2>1. disk' = [disk EXCEPT ![p] = piece]
    BY <1>p
  <2>2. IsDisk(disk)
    BY DEF InstallTypes
  <2> HIDE DEF piece
  <2> QED
    BY <2>1, <2>2, DiskMoves
<1> HIDE DEF gone, piece, left
<1>k. left \in SUBSET Pieces /\ install.created \in BOOLEAN /\ install.stored \in BOOLEAN
      /\ install.pc \in InstallPcs
  BY <1>v DEF InstallTypes, IsRun
<1>f. /\ IsRun(install)' /\ SameRun /\ install'.pc = install.pc /\ install'.left = left
      /\ install'.created = install.created /\ install'.stored = install.stored
  BY <1>e, <1>k, RunGoesOn
<1>t. p \in PanelPieces \/ p \in install.changed \/ (p = "resolver" /\ install.stub) \/ p = "database"
      \/ (p \in {"bundle", "config"} /\ install.kind # "panel-only")
  BY <1>q DEF ToPut
<1>n. install.changed \subseteq {"kernel", "kunit"} /\ (install.kind = "panel-only" => install.changed = {})
      /\ IsDisk(install.saved.disk)
  BY <1>g DEF InstallTypes, IsRun, SavedInv, IsHost
<1>u. IsDisk(disk)'
  BY <1>d, <1>v, <1>t, <1>n DEF InstallTypes, IsDisk, PanelPieces, KixdnsPieces, Pieces
<1> USE DEF SameRun, Pieces, PanelPieces, KixdnsPieces
<1>1. InstallTypes'
  BY <1>g, <1>p, <1>q, <1>v, <1>e, <1>d, <1>k, <1>f, <1>t, <1>n, <1>u DEF InstallTypes
<1>2. SavedInv'
  BY <1>g, <1>p, <1>q, <1>v, <1>e, <1>d, <1>k, <1>f, <1>t, <1>n, <1>u DEF SavedInv, PanelFits,
     KixdnsFits, ToPut, PanelPieces
<1>3. BeforeInv'
  BY <1>g, <1>p, <1>q, <1>v, <1>e, <1>d, <1>k, <1>f, <1>t, <1>n, <1>u DEF BeforeInv, SavedInv
<1>4. PanelPiecesInv'
  BY <1>g, <1>p, <1>q, <1>v, <1>e, <1>d, <1>k, <1>f, <1>t, <1>n, <1>u DEF PanelPiecesInv,
     PanelPieces, Early
<1>5. OtherPiecesInv'
  BY <1>g, <1>p, <1>q, <1>v, <1>e, <1>d, <1>k, <1>f, <1>t, <1>n, <1>u DEF OtherPiecesInv,
     SavedInv, Early
<1>6. KixdnsPiecesInv'
  BY <1>g, <1>p, <1>q, <1>v, <1>e, <1>d, <1>k, <1>f, <1>t, <1>n, <1>u DEF KixdnsPiecesInv,
     SavedInv, Early
<1>7. ServicesInv'
  BY <1>g, <1>p, <1>q, <1>v, <1>e, <1>d, <1>k, <1>f, <1>t, <1>n, <1>u DEF ServicesInv,
     SavedInv, InstallTypes, ServiceStates, Early
<1>8. UpdateInv'
  BY <1>g, <1>p, <1>q, <1>v, <1>e, <1>d, <1>k, <1>f, <1>t, <1>n, <1>u DEF UpdateInv, SavedInv,
     PanelPiecesInv, PanelPieces
<1>9. InstallAllOrNothing'
  BY <1>g, <1>p, <1>q, <1>v, <1>e, <1>d, <1>k, <1>f, <1>t, <1>n, <1>u, <1>8
     DEF InstallAllOrNothing, UpdateInv, SavedInv, PanelWhole, KixdnsAsBefore, KixdnsWhole,
     Restored
<1>10. PanelFits(disk, services)'
  BY <1>g, <1>p, <1>q, <1>v, <1>e, <1>d, <1>k, <1>f, <1>t, <1>n, <1>u DEF PanelFits, SavedInv,
     ServicesInv
<1>11. KixdnsFits(disk, services)'
  <2>1. services'.kixdns # NoPiece =>
          disk'.kunit = disk.kunit /\ disk'.kernel = disk.kernel
    BY <1>d, <1>g, <1>t, <1>n DEF ServicesInv
  <2>2. services'.kixdns # NoPiece => disk'.kunit = Original \/ disk'.resolver = "off"
    <3>1. services'.kixdns # NoPiece => install.saved.services.kixdns # NoPiece
      BY <1>g DEF ServicesInv
    <3>2. services'.kixdns # NoPiece => disk.kunit = install.saved.disk.kunit
      BY <1>g, <2>1 DEF ServicesInv, KixdnsPiecesInv, SavedInv, BeforeInv
    <3> QED
      BY <1>d, <1>g, <1>t, <1>v, <2>1, <3>1, <3>2 DEF KixdnsFits, SavedInv
  <2>3. services'.kixdnsBoots /\ disk'.kunit = NoPiece => disk'.server = 2 /\ disk'.env = 2
    <3>1. CASE disk'.kunit = install.saved.disk.kunit
      BY <1>4, <1>f, <1>g, <3>1 DEF PanelPiecesInv, SavedInv, KixdnsFits, ServicesInv
    <3>2. CASE disk'.kunit # install.saved.disk.kunit
      BY <1>3, <1>6, <1>f, <1>g, <3>2 DEF KixdnsPiecesInv, BeforeInv
    <3> QED
      BY <3>1, <3>2
  <2> QED
    BY <1>g, <2>1, <2>2, <2>3 DEF KixdnsFits
<1>12. (~Running => cut \/ OneRelease(disk, services))'
  BY <1>g, <1>p, <1>q, <1>v, <1>e, <1>d, <1>k, <1>f, <1>t, <1>n, <1>u DEF SavedInv
<1> QED
  BY <1>1, <1>2, <1>3, <1>4, <1>5, <1>6, <1>7, <1>8, <1>9, <1>10, <1>11, <1>12

LEMMA ConfigMoves ==
  ASSUME IsDisk(disk)
  PROVE  /\ [disk EXCEPT !["config"] = 2] = [q \in Pieces |-> IF q = "config" THEN 2 ELSE disk[q]]
         /\ [disk EXCEPT !["kernel"] = 3] = [q \in Pieces |-> IF q = "kernel" THEN 3 ELSE disk[q]]
<1>1. "config" \in Pieces /\ "kernel" \in Pieces
  BY DEF Pieces, KixdnsPieces
<1> QED
  BY <1>1, DiskMoves

LEMMA PanelMakesChanges == ASSUME InstallInv, PanelChanges PROVE InstallInv'
<1> USE InstallAssumption, NoRelease DEF InstallAssumption, InstallInv, Running
<1>g. services.panel # NoPiece /\ told' = "nothing" /\ UNCHANGED <<sound, install, updater, updateState, cut>>
  BY DEF PanelChanges
<1>p. PICK p \in {"config", "kernel"}, piece \in {2, 3} :
        /\ disk' = [q \in Pieces |-> IF q = p THEN piece ELSE disk[q]]
        /\ p = "config" => piece = 2 /\ services' = services
        /\ p = "kernel" => /\ piece = 3
                           /\ services' = [services EXCEPT !.kixdns = IF @ = NoPiece THEN NoPiece
                                                                      ELSE StartsKixdns(disk')]
                           /\ services.kixdns # NoPiece => services'.kixdns # NoPiece
  <2>1. IsDisk(disk) /\ "config" \in Pieces /\ "kernel" \in Pieces
    BY DEF InstallTypes, Pieces, KixdnsPieces
  <2>2. CASE disk' = [disk EXCEPT !["config"] = 2] /\ UNCHANGED services
    <3>1. disk' = [q \in Pieces |-> IF q = "config" THEN 2 ELSE disk[q]]
      BY <2>1, <2>2, ConfigMoves
    <3> QED
      BY <2>2, <3>1
  <2>3. CASE /\ disk' = [disk EXCEPT !["kernel"] = 3]
             /\ services' = [services EXCEPT !.kixdns = IF @ = NoPiece THEN NoPiece ELSE StartsKixdns(disk')]
             /\ services.kixdns # NoPiece => services'.kixdns # NoPiece
    <3>1. disk' = [q \in Pieces |-> IF q = "kernel" THEN 3 ELSE disk[q]]
      BY <2>1, <2>3, ConfigMoves
    <3> QED
      BY <2>3, <3>1
  <2> QED
    BY <2>2, <2>3 DEF PanelChanges
<1>d. disk'[p] = piece /\ (\A q \in Pieces : q # p => disk'[q] = disk[q])
  BY <1>p DEF Pieces, KixdnsPieces
<1>u. IsDisk(disk)'
  BY <1>p DEF InstallTypes, IsDisk, Pieces, PanelPieces, KixdnsPieces
<1>s. /\ services' \in ServiceStates /\ services'.panel = services.panel
      /\ services'.kixdnsBoots = services.kixdnsBoots /\ services'.panelBoots = services.panelBoots
      /\ p = "config" => services'.kixdns = services.kixdns
      /\ p = "kernel" => services'.kixdns = IF services.kixdns = NoPiece THEN NoPiece
                                            ELSE StartsKixdns(disk')
      /\ services'.kixdns = NoPiece <=> services.kixdns = NoPiece
  <2>1. services \in ServiceStates /\ StartsKixdns(disk') \in {NoPiece, 1, 2, 3, Original}
    BY <1>u DEF InstallTypes, StartsKixdns, IsDisk
  <2> HIDE DEF StartsKixdns
  <2>2. CASE p = "config"
    BY <1>p, <2>1, <2>2
  <2>3. CASE p = "kernel"
    BY <1>p, <2>1, <2>3 DEF ServiceStates
  <2> QED
    BY <2>2, <2>3
<1>r. Running => install.pc \in {"preserve", "stop", "verify", "undo"}
  BY <1>g DEF ServicesInv, InstallTypes, IsRun, InstallPcs, Early
<1>b. IF Running /\ install.kind # "panel-only" THEN late' = TRUE /\ before' = before
      ELSE /\ late' = late
           /\ before' = [disk |-> [before.disk EXCEPT !.config = disk'.config, !.kernel = disk'.kernel],
                         services |-> [before.services EXCEPT !.kixdns = services'.kixdns]]
  BY DEF PanelChanges
<1>c. ~(Running /\ install.kind # "panel-only") =>
        /\ before'.disk = [before.disk EXCEPT !["config"] = disk'.config, !["kernel"] = disk'.kernel]
        /\ before'.services = [before.services EXCEPT !.kixdns = services'.kixdns]
        /\ before' = [disk |-> before'.disk, services |-> before'.services]
  <2> DEFINE d == [before.disk EXCEPT !["config"] = disk'.config, !["kernel"] = disk'.kernel]
             s == [before.services EXCEPT !.kixdns = services'.kixdns]
  <2>1. ~(Running /\ install.kind # "panel-only") => before' = [disk |-> d, services |-> s]
    BY <1>b
  <2> HIDE DEF d, s
  <2>2. ~(Running /\ install.kind # "panel-only") =>
          before'.disk = d /\ before'.services = s
          /\ before' = [disk |-> before'.disk, services |-> before'.services]
    BY <2>1
  <2> QED
    BY <2>2 DEF d, s
<1>h. IsHost(before)'
  <2>1. CASE Running /\ install.kind # "panel-only"
    BY <1>b, <2>1 DEF InstallTypes
  <2>2. CASE ~(Running /\ install.kind # "panel-only")
    <3>1. IsHost(before) /\ disk'.config \in {NoPiece, 0, 1, 2} /\ disk'.kernel \in {NoPiece, 1, 2, 3}
          /\ services'.kixdns \in {NoPiece, 1, 2, 3, Original}
      BY <1>u, <1>s DEF InstallTypes, IsDisk, ServiceStates
    <3>2. before'.disk = [before.disk EXCEPT !["config"] = disk'.config, !["kernel"] = disk'.kernel]
          /\ before'.services = [before.services EXCEPT !.kixdns = services'.kixdns]
          /\ before' = [disk |-> before'.disk, services |-> before'.services]
      BY <1>c, <2>2
    <3>3. IsDisk(before'.disk)
      BY <3>1, <3>2 DEF IsHost, IsDisk, Pieces, PanelPieces, KixdnsPieces
    <3>4. before'.services \in ServiceStates
      BY <3>1, <3>2 DEF IsHost, ServiceStates
    <3> QED
      BY <3>2, <3>3, <3>4 DEF IsHost
  <2> QED
    BY <2>1, <2>2
<1>1. InstallTypes'
  BY <1>g, <1>u, <1>s, <1>h, <1>b DEF InstallTypes
<1>2. SavedInv'
  BY <1>g DEF SavedInv, PanelFits, KixdnsFits, ToPut, PanelPieces
<1>3. BeforeInv'
  <2>1. CASE Running /\ install.kind # "panel-only"
    BY <1>b, <1>g, <2>1 DEF BeforeInv
  <2>2. CASE Running /\ install.kind = "panel-only"
    <3>1. IsHost(before) /\ IsHost(install.saved)
      BY <2>2 DEF InstallTypes, SavedInv
    <3>2. before'.disk = [before.disk EXCEPT !["config"] = disk'.config, !["kernel"] = disk'.kernel]
          /\ before'.services = [before.services EXCEPT !.kixdns = services'.kixdns]
      BY <1>c, <2>2
    <3>3. \A q \in Pieces : before'.disk[q] = IF q \in {"config", "kernel"} THEN disk'[q]
                                               ELSE before.disk[q]
      BY <3>1, <3>2 DEF IsHost, IsDisk, Pieces, KixdnsPieces
    <3>4. before'.services = [install.saved.services EXCEPT !.kixdns = before'.services.kixdns]
          /\ before'.services.kixdns = services'.kixdns
      BY <2>2, <3>1, <3>2 DEF IsHost, ServiceStates, BeforeInv
    <3>5. \A q \in KixdnsPieces : disk'[q] = before'.disk[q]
      BY <1>d, <2>2, <3>3 DEF BeforeInv, KixdnsPieces, Pieces
    <3> QED
      BY <1>g, <2>2, <3>3, <3>4, <3>5 DEF BeforeInv
  <2> QED
    BY <1>g, <2>1, <2>2 DEF BeforeInv
<1>4. PanelPiecesInv'
  BY <1>g, <1>d DEF PanelPiecesInv, Pieces, PanelPieces
<1>5. OtherPiecesInv'
  BY <1>g, <1>d DEF OtherPiecesInv, Pieces
<1>6. KixdnsPiecesInv'
  <2> SUFFICES ASSUME Running, install.kind # "panel-only" PROVE KixdnsPiecesInv'
    BY <1>g DEF KixdnsPiecesInv
  <2>1. late' = TRUE /\ disk'.kunit = disk.kunit /\ disk'.server = disk.server /\ disk'.env = disk.env
        /\ (p = "config" => disk'.config # NoPiece) /\ (p # "config" => disk'.config = disk.config)
    BY <1>b, <1>d DEF Pieces, PanelPieces, KixdnsPieces
  <2> QED
    BY <1>g, <1>r, <2>1 DEF KixdnsPiecesInv, Early
<1>7. ServicesInv'
  <2>1. Running /\ install.kind # "panel-only" => late'
    BY <1>b
  <2> QED
    BY <1>g, <1>r, <1>s, <2>1 DEF ServicesInv, Early
<1>8. UpdateInv'
  BY <1>g, <1>d DEF UpdateInv, Pieces, PanelPieces
<1>9. InstallAllOrNothing'
  BY <1>8, <1>g DEF InstallAllOrNothing, UpdateInv
<1>10. PanelFits(disk, services)'
  BY <1>g, <1>d, <1>s DEF PanelFits, MayStart, Pieces, PanelPieces
<1>11. KixdnsFits(disk, services)'
  <2>1. disk'.kunit = disk.kunit /\ disk'.server = disk.server /\ disk'.env = disk.env
        /\ disk'.resolver = disk.resolver /\ (p = "config" => disk'.kernel = disk.kernel)
    BY <1>d DEF Pieces, PanelPieces, KixdnsPieces
  <2>2. CASE p = "config"
    BY <1>g, <1>s, <2>1, <2>2 DEF KixdnsFits
  <2>3. CASE p = "kernel" /\ services.kixdns = NoPiece
    BY <1>g, <1>s, <2>1, <2>3 DEF KixdnsFits
  <2>4. CASE p = "kernel" /\ services.kixdns # NoPiece
    BY <1>g, <1>s, <2>1, <2>4 DEF KixdnsFits, StartsKixdns
  <2> QED
    BY <2>2, <2>3, <2>4
<1>12. (~Running => cut \/ OneRelease(disk, services))'
  <2>1. (\A q \in PanelPieces : disk'[q] = disk[q]) /\ services'.panelBoots = services.panelBoots
    BY <1>d, <1>s DEF Pieces, PanelPieces
  <2> QED
    BY <1>g, <2>1 DEF OneRelease, PanelPieces
<1> QED
  BY <1>1, <1>2, <1>3, <1>4, <1>5, <1>6, <1>7, <1>8, <1>9, <1>10, <1>11, <1>12

---------------------------------------------------------------------------
(* The theorems.                                                           *)

LEMMA HostIsSound ==
  ASSUME NEW d, NEW s, IsDisk(d), s \in ServiceStates
  PROVE  IsHost([disk |-> d, services |-> s])
BY DEF IsHost

\* The hosts that an installer may find.
LEMMA HostsAre ==
  ASSUME NEW host \in InstallHosts
  PROVE  \/ \E resolver \in {"stub", "off"} : host = BareHost(resolver)
         \/ \E up \in {Original, NoPiece}, boots \in BOOLEAN : host = ForeignHost(up, boots)
         \/ \E release \in {1, 2}, active \in BOOLEAN : host = PanelHost(release, active)
BY DEF InstallHosts

\* With no panel there only KixDNS may run.
LEMMA NoPanelFits ==
  ASSUME NEW d, NEW s, IsDisk(d), d.server = NoPiece, d.kunit = Original,
         \A p \in PanelPieces : d[p] = NoPiece,
         s.panel = NoPiece, s.panelBoots = FALSE, s.kixdns \in {Original, NoPiece}
  PROVE  OneRelease(d, s) /\ PanelFits(d, s) /\ KixdnsFits(d, s)
BY NoRelease DEF OneRelease, PanelFits, KixdnsFits

LEMMA QuietFits ==
  ASSUME NEW resolver \in {"stub", "off"}, NEW d, NEW s,
         d = BareHost(resolver).disk, s = BareHost(resolver).services
  PROVE  /\ IsDisk(d) /\ s \in ServiceStates /\ s.kixdns = NoPiece
         /\ OneRelease(d, s) /\ PanelFits(d, s) /\ KixdnsFits(d, s)
<1>1. d = [p \in Pieces |-> IF p = "resolver" THEN resolver ELSE NoPiece] /\ s = HostQuiet
  BY DEF BareHost, NoPieces
<1>2. IsDisk(d)
  BY <1>1 DEF IsDisk, Pieces, PanelPieces, KixdnsPieces
<1>3. s \in ServiceStates /\ s.panel = NoPiece /\ s.panelBoots = FALSE /\ s.kixdns = NoPiece
      /\ s.kixdnsBoots = FALSE
  BY <1>1 DEF HostQuiet, ServiceStates
<1>4. d.server = NoPiece /\ \A p \in PanelPieces : d[p] = NoPiece
  BY <1>1 DEF Pieces, PanelPieces
<1>5. OneRelease(d, s) /\ PanelFits(d, s) /\ KixdnsFits(d, s)
  BY <1>3, <1>4 DEF OneRelease, PanelFits, KixdnsFits
<1> QED
  BY <1>2, <1>3, <1>5

LEMMA ForeignFits ==
  ASSUME NEW up \in {Original, NoPiece}, NEW boots \in BOOLEAN, NEW d, NEW s,
         d = ForeignHost(up, boots).disk, s = ForeignHost(up, boots).services
  PROVE  /\ IsDisk(d) /\ s \in ServiceStates /\ s.kixdns \in {Original, NoPiece}
         /\ OneRelease(d, s) /\ PanelFits(d, s) /\ KixdnsFits(d, s)
<1>1. /\ d = [p \in Pieces |-> IF p = "resolver" THEN "off" ELSE IF p = "kunit" THEN Original
                               ELSE IF p = "config" THEN 1 ELSE NoPiece]
      /\ s = [panel |-> NoPiece, kixdns |-> up, panelBoots |-> FALSE, kixdnsBoots |-> boots]
  BY DEF ForeignHost, NoPieces, HostQuiet, Pieces, KixdnsPieces
<1>2. IsDisk(d)
  BY <1>1 DEF IsDisk, Pieces, PanelPieces, KixdnsPieces
<1>3. s \in ServiceStates /\ s.panel = NoPiece /\ s.panelBoots = FALSE /\ s.kixdns = up
  BY <1>1 DEF ServiceStates
<1>4. d.server = NoPiece /\ d.kunit = Original /\ \A p \in PanelPieces : d[p] = NoPiece
  BY <1>1 DEF Pieces, PanelPieces, KixdnsPieces
<1> QED
  BY <1>2, <1>3, <1>4, NoPanelFits

\* The services of a host that lost an unsound KixDNS are services still.
LEMMA ServicesAre ==
  ASSUME NEW s \in ServiceStates, s.panel = 1, s.panelBoots = TRUE,
         NEW kixdns \in {NoPiece, 1, 2}
  PROVE  /\ [s EXCEPT !.kixdns = kixdns] \in ServiceStates
         /\ [s EXCEPT !.kixdns = kixdns].panel = 1
         /\ [s EXCEPT !.kixdns = kixdns].panelBoots = TRUE
         /\ [s EXCEPT !.kixdns = kixdns].kixdns = kixdns
BY DEF ServiceStates

LEMMA PanelHostFits ==
  ASSUME NEW release \in {1, 2}, NEW active \in BOOLEAN, NEW d, NEW s, NEW kixdns,
         d = PanelHost(release, active).disk, s = PanelHost(release, active).services,
         kixdns = IF s.kixdns = 2 /\ "kixdns" \notin sound THEN NoPiece ELSE s.kixdns
  PROVE  /\ IsDisk(d) /\ s \in ServiceStates /\ [s EXCEPT !.kixdns = kixdns] \in ServiceStates
         /\ OneRelease(d, [s EXCEPT !.kixdns = kixdns])
         /\ PanelFits(d, [s EXCEPT !.kixdns = kixdns])
         /\ KixdnsFits(d, [s EXCEPT !.kixdns = kixdns])
<1>1. d = [p \in Pieces |->
             CASE p \in {"kernel", "kunit", "bundle"} -> release
               [] p = "resolver" -> IF active THEN "off" ELSE "stub"
               [] p = "external" -> NoPiece
               [] OTHER -> 1]
  BY DEF PanelHost
<1>2. s = [panel |-> 1, panelBoots |-> TRUE, kixdnsBoots |-> active,
           kixdns |-> IF active THEN release ELSE NoPiece]
  BY DEF PanelHost
<1>3. IsDisk(d)
  BY <1>1 DEF IsDisk, Pieces, PanelPieces, KixdnsPieces
<1>4. /\ d.server = 1 /\ d.web = 1 /\ d.units = 1 /\ d.database = 1 /\ d.kunit = release
      /\ d.kernel = release /\ (active => d.resolver = "off")
      /\ \A p \in PanelPieces : d[p] = 1
  BY <1>1 DEF Pieces, PanelPieces, KixdnsPieces
<1>5. /\ s \in ServiceStates /\ s.panel = 1 /\ s.panelBoots = TRUE
      /\ s.kixdns = IF active THEN release ELSE NoPiece
  BY <1>2 DEF ServiceStates
<1>6. /\ kixdns \in {NoPiece, 1, 2}
      /\ kixdns # NoPiece => active /\ kixdns = release /\ (kixdns = 2 => "kixdns" \in sound)
  BY <1>5, NoRelease
<1> DEFINE runs == [s EXCEPT !.kixdns = kixdns]
<1>7. runs \in ServiceStates /\ runs.panel = 1 /\ runs.panelBoots = TRUE /\ runs.kixdns = kixdns
  BY <1>5, <1>6, ServicesAre
<1> HIDE DEF runs
<1>8. runs.kixdns # NoPiece =>
        active /\ runs.kixdns = release /\ (runs.kixdns = 2 => "kixdns" \in sound)
  BY <1>6, <1>7
<1>9. OneRelease(d, runs)
  BY <1>4, <1>7, NoRelease DEF OneRelease
<1>10. PanelFits(d, runs)
  BY <1>4, <1>7, NoRelease DEF PanelFits, MayStart
<1>11. KixdnsFits(d, runs)
  BY <1>4, <1>8, NoRelease DEF KixdnsFits
<1> QED
  BY <1>3, <1>5, <1>7, <1>9, <1>10, <1>11 DEF runs

LEMMA HostHolds ==
  ASSUME NEW host \in InstallHosts, disk = host.disk,
         services = [host.services EXCEPT !.kixdns =
                       IF @ = 2 /\ "kixdns" \notin sound THEN NoPiece ELSE @]
  PROVE  /\ IsDisk(disk) /\ IsHost(host) /\ services \in ServiceStates
         /\ OneRelease(disk, services) /\ PanelFits(disk, services) /\ KixdnsFits(disk, services)
<1>1. ASSUME host.services \in ServiceStates, host.services.kixdns # 2
      PROVE  services = host.services
  BY <1>1 DEF ServiceStates
<1>2. CASE \E resolver \in {"stub", "off"} : host = BareHost(resolver)
  <2>1. PICK resolver \in {"stub", "off"} : host = BareHost(resolver)
    BY <1>2
  <2>2. host.services \in ServiceStates /\ host.services.kixdns = NoPiece /\ IsDisk(disk)
        /\ OneRelease(disk, host.services) /\ PanelFits(disk, host.services)
        /\ KixdnsFits(disk, host.services)
    BY <2>1, QuietFits
  <2>3. host = [disk |-> disk, services |-> host.services]
    BY <2>1 DEF BareHost
  <2> QED
    BY <2>2, <2>3, <1>1, NoRelease, HostIsSound
<1>3. CASE \E up \in {Original, NoPiece}, boots \in BOOLEAN : host = ForeignHost(up, boots)
  <2>1. PICK up \in {Original, NoPiece}, boots \in BOOLEAN : host = ForeignHost(up, boots)
    BY <1>3
  <2>2. host.services \in ServiceStates /\ host.services.kixdns \in {Original, NoPiece}
        /\ IsDisk(disk) /\ OneRelease(disk, host.services) /\ PanelFits(disk, host.services)
        /\ KixdnsFits(disk, host.services)
    BY <2>1, ForeignFits
  <2>3. host = [disk |-> disk, services |-> host.services]
    BY <2>1 DEF ForeignHost
  <2> QED
    BY <2>2, <2>3, <1>1, NoRelease, HostIsSound
<1>4. CASE \E release \in {1, 2}, active \in BOOLEAN : host = PanelHost(release, active)
  <2>1. PICK release \in {1, 2}, active \in BOOLEAN : host = PanelHost(release, active)
    BY <1>4
  <2>2. /\ services = [host.services EXCEPT !.kixdns =
                         IF host.services.kixdns = 2 /\ "kixdns" \notin sound THEN NoPiece
                         ELSE host.services.kixdns]
        /\ host = [disk |-> disk, services |-> host.services]
    BY <2>1 DEF PanelHost
  <2>3. IsDisk(disk) /\ host.services \in ServiceStates /\ services \in ServiceStates
        /\ OneRelease(disk, services) /\ PanelFits(disk, services) /\ KixdnsFits(disk, services)
    BY <2>1, <2>2, PanelHostFits
  <2> QED
    BY <2>2, <2>3, HostIsSound
<1> QED
  BY <1>2, <1>3, <1>4, HostsAre

LEMMA InstallStutters == ASSUME InstallInv, UNCHANGED installVars PROVE InstallInv'
<1> USE DEF InstallInv, installVars, installCounts, installHistory, Running
<1>1. InstallTypes'
  BY DEF InstallTypes
<1>2. SavedInv' /\ BeforeInv'
  BY DEF SavedInv, BeforeInv, PanelFits, KixdnsFits, ToPut
<1>3. PanelPiecesInv' /\ OtherPiecesInv' /\ KixdnsPiecesInv'
  BY DEF PanelPiecesInv, OtherPiecesInv, KixdnsPiecesInv
<1>4. ServicesInv' /\ UpdateInv'
  BY DEF ServicesInv, UpdateInv
<1>5. InstallAllOrNothing'
  BY DEF InstallAllOrNothing, PanelWhole, KixdnsAsBefore, KixdnsWhole, Restored
<1>6. PanelFits(disk, services)' /\ KixdnsFits(disk, services)'
  BY DEF PanelFits, KixdnsFits
<1> QED
  BY <1>1, <1>2, <1>3, <1>4, <1>5, <1>6

LEMMA InstallInitially == InstallInit => InstallInv
<1> SUFFICES ASSUME InstallInit PROVE InstallInv
  OBVIOUS
<1> USE InstallAssumption, NoRelease DEF InstallAssumption, Running, NoRun, InstallInit
<1>1. PICK host \in InstallHosts :
        /\ disk = host.disk /\ before = host
        /\ services = [host.services EXCEPT !.kixdns =
                         IF @ = 2 /\ "kixdns" \notin sound THEN NoPiece ELSE @]
  OBVIOUS
<1>2. /\ IsDisk(disk) /\ IsHost(host) /\ services \in ServiceStates
      /\ OneRelease(disk, services) /\ PanelFits(disk, services) /\ KixdnsFits(disk, services)
  BY <1>1, HostHolds
<1>3. IsRun(install) /\ ~Running
  BY DEF IsRun, InstallPcs, Early, Kinds
<1>4. InstallTypes
  BY <1>1, <1>2, <1>3 DEF InstallTypes
<1>5. SavedInv /\ BeforeInv /\ PanelPiecesInv /\ OtherPiecesInv /\ KixdnsPiecesInv /\ ServicesInv
  BY <1>3 DEF SavedInv, BeforeInv, PanelPiecesInv, OtherPiecesInv, KixdnsPiecesInv, ServicesInv
<1>6. UpdateInv /\ InstallAllOrNothing
  BY DEF UpdateInv, InstallAllOrNothing
<1> QED
  BY <1>2, <1>4, <1>5, <1>6 DEF InstallInv

LEMMA InstallSteps == InstallInv /\ [InstallNext]_installVars => InstallInv'
<1> SUFFICES ASSUME InstallInv, [InstallNext]_installVars PROVE InstallInv'
  OBVIOUS
<1>1. CASE UNCHANGED installVars
  BY <1>1, InstallStutters
<1>2. CASE InstallNext
  BY <1>2, PanelStops, StepIsCut, UpdateStarts, CheckingShows, UpdateIsCut, UpdateReports,
     StatusGrowsOld, ReleasesCompare, ExternalIsKept, DatabaseIsSaved, KixdnsHalts,
     ServicesAreUndone, KixdnsIsUndone, ServicesAreEnabled, NewPanelStarts, InstallerIsKilled,
     PowerGoes, InstallBegins, InstallerRuns, ServicesAreVerified, PanelIsUndone, PieceIsPut,
     PieceIsUndone, PanelMakesChanges DEF InstallNext
<1> QED
  BY <1>1, <1>2

\* What a run of install.sh has saved, replaced and put back at each of its steps, over any number
\* of runs, failures, kills and losses of power (scripts/install.sh).
THEOREM InstallInvariant == InstallSpec => []InstallInv
BY InstallInitially, InstallSteps, PTL DEF InstallSpec

\* Told installed, the release is there whole and runs; told restored, the host is as it was; and
\* an online update that tells it is complete has brought the newest panel (scripts/install.sh).
THEOREM InstallIsAllOrNothing == InstallSpec => []InstallAllOrNothing
<1>1. InstallInv => InstallAllOrNothing
  BY DEF InstallInv
<1> QED
  BY <1>1, InstallInvariant, PTL


---------------------------------------------------------------------------
(* The uninstaller.                                                        *)

Units == {"panel", "user", "original", NoUnit}
Backups == [up : BOOLEAN, boots : BOOLEAN] \union {NoUnit}
Sites ==
  [env : {"managed", "foreign", "none"}, unit : Units, up : Units, boots : BOOLEAN,
   program : BOOLEAN, backup : Backups, config : BOOLEAN, data : BOOLEAN,
   accounts : SUBSET {"kixdns", "kixdns-panel"}, off : BOOLEAN, record : BOOLEAN]
Answers == {"keep", "remove"}

\* A run that removes KixDNS: the steps from each one on.
FromSettings == {"settings", "running"}
FromUser == {"user"} \union FromSettings
FromConfig == {"config"} \union FromUser
FromAccount == {"account"} \union FromConfig
FromData == {"data"} \union FromAccount
FromListener == {"listener"} \union FromData
FromOriginal == {"original"} \union FromListener
FromProgram == {"program"} \union FromOriginal
FromUnit == {"unit"} \union FromProgram
RemovalPcs == {"idle", "components", "dead", "stop"} \union FromUnit

UninstallTypes ==
  /\ site \in Sites /\ firstSite \in UninstallHosts
  /\ removal \in [pc : RemovalPcs, kixdns : Answers, config : Answers, managed : BOOLEAN,
                  dead : BOOLEAN, backup : Backups]
  /\ choices \subseteq [kixdns : Answers, config : Answers]
  /\ {ended, stays, lost} \subseteq BOOLEAN

\* The run under way is to remove KixDNS, and is at one of these steps.
Removing(pcs) == removal.pc \in pcs /\ removal.kixdns = "remove"
UnderWay == RemovalPcs \ {"idle"}

\* A run removes a KixDNS only while panel.env says that it is the panel's.
KnowsWhose ==
  /\ removal.pc = "idle" => removal = NoRemoval
  /\ Removing(UnderWay) => removal.managed /\ ~removal.dead
  /\ Removing(UnderWay \ {"running"}) => site.env = "managed"
  /\ Removing({"running"}) =>
       site.env = IF removal.config = "remove" THEN "none" ELSE "managed"
  /\ removal.pc \in {"stop", "unit", "program", "original", "config", "user"} =>
       removal.kixdns = "remove"
  /\ removal.pc \in FromData \ {"running"} => removal.config = "remove"
  /\ removal.pc \in {"config", "user"} => removal.backup = NoUnit
  /\ removal.pc = "original" => removal.backup # NoUnit
  /\ removal.pc = "dead" => removal.dead
  /\ removal.dead => ~site.program
  /\ Removing(FromOriginal) => ~site.program
  /\ site.env = firstSite.env \/ site.env = "none"

SameKixdns ==
  /\ site.unit = firstSite.unit /\ site.program = firstSite.program
  /\ site.config = firstSite.config /\ site.off = firstSite.off
  /\ "kixdns" \in site.accounts
SameService == site.up = firstSite.up /\ site.boots = firstSite.boots

\* A KixDNS that has its program and unit is as it was; one kept without the settings has
\* both, and stays; one that never was the panel's is left alone.
StaysInv ==
  /\ site.program /\ site.unit \in ByPanel => SameKixdns
  /\ stays => site.env = "none" /\ site.unit \in ByPanel /\ site.program
              /\ (removal.pc # "idle" => removal.managed)
  /\ firstSite.env = "foreign" => SameKixdns /\ SameService /\ ~removal.managed /\ ~removal.dead
  /\ (\A choice \in choices : choice.kixdns = "keep") =>
       /\ removal.kixdns = "keep"
       /\ firstSite.program =>
            SameKixdns /\ SameService /\ (removal.pc # "idle" => removal.managed)

---------------------------------------------------------------------------
(* When every run is to remove everything.                                 *)

AllGoes == choices \subseteq {[kixdns |-> "remove", config |-> "remove"]} /\ firstSite.env = "managed"
Nothing == site.unit = NoUnit /\ ~site.config /\ site.accounts = {}

\* What a run knows of the backup.
BackupInv ==
  /\ {site.backup, removal.backup} \subseteq {NoUnit, firstSite.backup}
  /\ site.env = "managed" /\ removal.pc \notin FromAccount => lost \/ site.backup = firstSite.backup
  /\ site.env = "managed" /\ removal.pc # "idle" => lost \/ removal.backup = firstSite.backup

\* How far a run is.
ProgressInv ==
  /\ Removing(FromUnit) => site.up = NoUnit /\ ~site.boots
  /\ Removing({"program", "original"}) => site.unit = NoUnit
  /\ Removing(FromListener) => site.unit = IF removal.backup = NoUnit THEN NoUnit ELSE "original"
  /\ Removing(FromData) => ~site.off /\ ~site.record
  /\ Removing(FromAccount) => ~site.data /\ site.backup = NoUnit
  /\ Removing(FromConfig) => "kixdns-panel" \notin site.accounts
  /\ Removing(FromUser) /\ removal.backup = NoUnit => ~site.config
  /\ Removing(FromSettings) /\ removal.backup = NoUnit => "kixdns" \notin site.accounts

\* Without panel.env nothing of the panel's is left.
GoneInv ==
  site.env = "none" =>
    /\ PanelIsGone
    /\ firstSite.backup = NoUnit => Nothing
    /\ firstSite.backup # NoUnit /\ ~lost =>
         IF removal.kixdns = "remove" THEN removal.backup = firstSite.backup ELSE OriginalIsBack
    /\ site.backup = NoUnit /\ (removal.kixdns = "keep" => removal.backup = NoUnit)

GoesInv ==
  AllGoes =>
    /\ removal.pc # "idle" => removal.config = "remove" /\ ~removal.dead
    /\ site.env = "managed" => removal.pc = "idle" \/ removal.kixdns = "remove"
    /\ site.env \in {"managed", "none"} /\ {site.unit, site.up} \subseteq {"panel", "original", NoUnit}
    /\ site.off => site.record
    /\ BackupInv /\ ProgressInv /\ GoneInv
    /\ ended => site.env = "none" /\ removal.pc = "idle"

UninstallInv == UninstallTypes /\ KnowsWhose /\ StaysInv /\ GoesInv

---------------------------------------------------------------------------
(* The hosts, and where a run can be.                                      *)

LEMMA HostsAreSites ==
  ASSUME NEW host \in UninstallHosts
  PROVE  /\ host \in Sites
         /\ host.env = "managed" => host.unit = "panel" /\ host.program
         /\ host.env = "managed" => (host.up \in {"panel", NoUnit})
         /\ host.env = "foreign" => host.unit = "original" /\ ~host.program
         /\ host.off = host.record /\ (host.backup # NoUnit => ~host.off)
         /\ host.config /\ "kixdns" \in host.accounts
<1> USE UninstallAssumption DEF UninstallAssumption, SiteOf, Sites, Units, Backups, ByPanel
<1>1. CASE \E up, off \in BOOLEAN : host = SiteOf("managed", "panel", up, TRUE, NoUnit, off)
  BY <1>1
<1>2. CASE \E up, was, boots \in BOOLEAN :
             host = SiteOf("managed", "panel", up, TRUE, [up |-> was, boots |-> boots], FALSE)
  <2>1. PICK up \in BOOLEAN, was \in BOOLEAN, boots \in BOOLEAN :
          host = SiteOf("managed", "panel", up, TRUE, [up |-> was, boots |-> boots], FALSE)
    BY <1>2
  <2>2. [up |-> was, boots |-> boots] \in [up : BOOLEAN, boots : BOOLEAN]
    OBVIOUS
  <2> QED
    BY <2>1, <2>2
<1>3. CASE \E up \in BOOLEAN : host = SiteOf("foreign", "original", up, FALSE, NoUnit, FALSE)
  BY <1>3
<1>4. CASE \E whose \in ByPanel, up \in BOOLEAN :
             host = SiteOf("none", whose, up, up, NoUnit, FALSE)
  BY <1>4
<1> QED
  BY <1>1, <1>2, <1>3, <1>4 DEF UninstallHosts

LEMMA HostsWithProgram ==
  ASSUME NEW host \in UninstallHosts, host.program PROVE host.unit \in ByPanel
BY HostsAreSites DEF UninstallHosts, SiteOf, ByPanel

LEMMA Steps ==
  /\ FromSettings = {"settings", "running"}
  /\ FromUser = {"user", "settings", "running"}
  /\ FromConfig = {"config", "user", "settings", "running"}
  /\ FromAccount = {"account", "config", "user", "settings", "running"}
  /\ FromData = {"data", "account", "config", "user", "settings", "running"}
  /\ FromListener = {"listener", "data", "account", "config", "user", "settings", "running"}
  /\ FromOriginal = {"original", "listener", "data", "account", "config", "user", "settings",
                     "running"}
  /\ FromProgram = {"program", "original", "listener", "data", "account", "config", "user",
                    "settings", "running"}
  /\ FromUnit = {"unit", "program", "original", "listener", "data", "account", "config", "user",
                 "settings", "running"}
  /\ RemovalPcs = {"idle", "components", "dead", "stop", "unit", "program", "original",
                   "listener", "data", "account", "config", "user", "settings", "running"}
  /\ UnderWay = RemovalPcs \ {"idle"}
BY DEF FromSettings, FromUser, FromConfig, FromAccount, FromData, FromListener, FromOriginal,
       FromProgram, FromUnit, RemovalPcs, UnderWay

LEMMA ComponentsGo == ASSUME UninstallInv, RemoveComponents PROVE UninstallInv'
<1> USE UninstallAssumption, Steps DEF UninstallAssumption, UninstallInv, RemoveComponents,
   Proceed, RemovesKixdns, uninstallRest, NoRemoval
<1>0. firstSite' = firstSite /\ firstSite \in Sites
  BY HostsAreSites DEF UninstallTypes
<1>1. UninstallTypes'
  BY <1>0 DEF UninstallTypes, Sites, Units, Backups, Answers
<1>2. KnowsWhose'
  BY <1>0 DEF KnowsWhose, UninstallTypes, Sites, Removing
<1>3. StaysInv'
  BY <1>0, HostsAreSites DEF StaysInv, SameKixdns, SameService, UninstallTypes, Sites,
     KnowsWhose, Removing, ByPanel
<1>4. GoesInv'
  BY <1>0, HostsAreSites DEF GoesInv, AllGoes, Nothing, BackupInv, ProgressInv, GoneInv,
     PanelIsGone, OriginalIsBack, UninstallTypes, Sites, Units, KnowsWhose, Removing
<1> QED
  BY <1>1, <1>2, <1>3, <1>4

LEMMA DeadUnitGoes == ASSUME UninstallInv, RemoveDeadUnit PROVE UninstallInv'
<1> USE UninstallAssumption, Steps DEF UninstallAssumption, UninstallInv, RemoveDeadUnit,
   Proceed, RemovesKixdns, uninstallRest, NoRemoval
<1>0. firstSite' = firstSite /\ firstSite \in Sites
  BY HostsAreSites DEF UninstallTypes
<1>1. UninstallTypes'
  BY <1>0 DEF UninstallTypes, Sites, Units, Backups, Answers
<1>2. KnowsWhose'
  BY <1>0 DEF KnowsWhose, UninstallTypes, Sites, Removing
<1>3. StaysInv'
  BY <1>0, HostsAreSites DEF StaysInv, SameKixdns, SameService, UninstallTypes, Sites,
     KnowsWhose, Removing, ByPanel
<1>4. GoesInv'
  BY <1>0, HostsAreSites DEF GoesInv, AllGoes, Nothing, BackupInv, ProgressInv, GoneInv,
     PanelIsGone, OriginalIsBack, UninstallTypes, Sites, Units, KnowsWhose, Removing
<1> QED
  BY <1>1, <1>2, <1>3, <1>4

LEMMA UnitStops == ASSUME UninstallInv, StopUnit PROVE UninstallInv'
<1> USE UninstallAssumption, Steps DEF UninstallAssumption, UninstallInv, StopUnit, Proceed,
   RemovesKixdns, uninstallRest, NoRemoval
<1>0. firstSite' = firstSite /\ firstSite \in Sites
  BY HostsAreSites DEF UninstallTypes
<1>1. UninstallTypes'
  BY <1>0 DEF UninstallTypes, Sites, Units, Backups, Answers
<1>2. KnowsWhose'
  BY <1>0 DEF KnowsWhose, UninstallTypes, Sites, Removing
<1>3. StaysInv'
  BY <1>0, HostsAreSites DEF StaysInv, SameKixdns, SameService, UninstallTypes, Sites,
     KnowsWhose, Removing, ByPanel
<1>4. GoesInv'
  BY <1>0, HostsAreSites DEF GoesInv, AllGoes, Nothing, BackupInv, ProgressInv, GoneInv,
     PanelIsGone, OriginalIsBack, UninstallTypes, Sites, Units, KnowsWhose, Removing
<1> QED
  BY <1>1, <1>2, <1>3, <1>4

LEMMA UnitGoes == ASSUME UninstallInv, RemoveUnit PROVE UninstallInv'
<1> USE UninstallAssumption, Steps DEF UninstallAssumption, UninstallInv, RemoveUnit, Proceed,
   RemovesKixdns, uninstallRest, NoRemoval
<1>0. firstSite' = firstSite /\ firstSite \in Sites
  BY HostsAreSites DEF UninstallTypes
<1>1. UninstallTypes'
  BY <1>0 DEF UninstallTypes, Sites, Units, Backups, Answers
<1>2. KnowsWhose'
  BY <1>0 DEF KnowsWhose, UninstallTypes, Sites, Removing
<1>3. StaysInv'
  BY <1>0, HostsAreSites DEF StaysInv, SameKixdns, SameService, UninstallTypes, Sites,
     KnowsWhose, Removing, ByPanel
<1>4. GoesInv'
  BY <1>0, HostsAreSites DEF GoesInv, AllGoes, Nothing, BackupInv, ProgressInv, GoneInv,
     PanelIsGone, OriginalIsBack, UninstallTypes, Sites, Units, KnowsWhose, Removing
<1> QED
  BY <1>1, <1>2, <1>3, <1>4

LEMMA ProgramGoes == ASSUME UninstallInv, RemoveProgram PROVE UninstallInv'
<1> USE UninstallAssumption, Steps DEF UninstallAssumption, UninstallInv, RemoveProgram,
   Proceed, RemovesKixdns, uninstallRest, NoRemoval
<1>0. firstSite' = firstSite /\ firstSite \in Sites
  BY HostsAreSites DEF UninstallTypes
<1>1. UninstallTypes'
  BY <1>0 DEF UninstallTypes, Sites, Units, Backups, Answers
<1>2. KnowsWhose'
  BY <1>0 DEF KnowsWhose, UninstallTypes, Sites, Removing
<1>3. StaysInv'
  BY <1>0, HostsAreSites DEF StaysInv, SameKixdns, SameService, UninstallTypes, Sites,
     KnowsWhose, Removing, ByPanel
<1>4. GoesInv'
  BY <1>0, HostsAreSites DEF GoesInv, AllGoes, Nothing, BackupInv, ProgressInv, GoneInv,
     PanelIsGone, OriginalIsBack, UninstallTypes, Sites, Units, KnowsWhose, Removing
<1> QED
  BY <1>1, <1>2, <1>3, <1>4

LEMMA OriginalReturns == ASSUME UninstallInv, PutOriginal PROVE UninstallInv'
<1> USE UninstallAssumption, Steps DEF UninstallAssumption, UninstallInv, PutOriginal, Proceed,
   RemovesKixdns, uninstallRest, NoRemoval
<1>0. firstSite' = firstSite /\ firstSite \in Sites
  BY HostsAreSites DEF UninstallTypes
<1>1. UninstallTypes'
  BY <1>0 DEF UninstallTypes, Sites, Units, Backups, Answers
<1>2. KnowsWhose'
  BY <1>0 DEF KnowsWhose, UninstallTypes, Sites, Removing
<1>3. StaysInv'
  BY <1>0, HostsAreSites DEF StaysInv, SameKixdns, SameService, UninstallTypes, Sites,
     KnowsWhose, Removing, ByPanel
<1>4. GoesInv'
  BY <1>0, HostsAreSites DEF GoesInv, AllGoes, Nothing, BackupInv, ProgressInv, GoneInv,
     PanelIsGone, OriginalIsBack, UninstallTypes, Sites, Units, KnowsWhose, Removing
<1> QED
  BY <1>1, <1>2, <1>3, <1>4

LEMMA ListenerReturns == ASSUME UninstallInv, RestoreListener PROVE UninstallInv'
<1> USE UninstallAssumption, Steps DEF UninstallAssumption, UninstallInv, RestoreListener,
   Proceed, RemovesKixdns, uninstallRest, NoRemoval
<1>0. firstSite' = firstSite /\ firstSite \in Sites
  BY HostsAreSites DEF UninstallTypes
<1>1. UninstallTypes'
  BY <1>0 DEF UninstallTypes, Sites, Units, Backups, Answers
<1>2. KnowsWhose'
  BY <1>0 DEF KnowsWhose, UninstallTypes, Sites, Removing
<1>3. StaysInv'
  BY <1>0, HostsAreSites DEF StaysInv, SameKixdns, SameService, UninstallTypes, Sites,
     KnowsWhose, Removing, ByPanel
<1>4. GoesInv'
  <2> SUFFICES ASSUME AllGoes' PROVE GoesInv'
    BY DEF GoesInv
  <2>0. AllGoes /\ GoesInv
    BY <1>0 DEF AllGoes
  <2>1. BackupInv'
    BY <1>0, <2>0 DEF GoesInv, BackupInv, KnowsWhose, UninstallTypes, Sites, Removing
  <2>2. ProgressInv'
    BY <1>0, <2>0 DEF GoesInv, ProgressInv, BackupInv, KnowsWhose, UninstallTypes, Sites,
       Removing
  <2>3. GoneInv'
    BY <1>0, <2>0, HostsAreSites DEF GoesInv, GoneInv, ProgressInv, BackupInv, Nothing,
       PanelIsGone, OriginalIsBack,
       KnowsWhose, UninstallTypes, Sites, Removing, AllGoes
  <2> QED
    BY <1>0, <2>0, <2>1, <2>2, <2>3 DEF GoesInv, KnowsWhose, UninstallTypes, Sites, Removing,
       GoneInv
<1> QED
  BY <1>1, <1>2, <1>3, <1>4

LEMMA DataGoes == ASSUME UninstallInv, RemoveData PROVE UninstallInv'
<1> USE UninstallAssumption, Steps DEF UninstallAssumption, UninstallInv, RemoveData, Proceed,
   RemovesKixdns, DataGone, uninstallRest, NoRemoval
<1>0. firstSite' = firstSite /\ firstSite \in Sites
  BY HostsAreSites DEF UninstallTypes
<1>s. /\ site'.env = site.env /\ site'.unit = site.unit /\ site'.up = site.up
      /\ site'.boots = site.boots /\ site'.config = site.config /\ site'.off = site.off
      /\ site'.accounts = site.accounts
      /\ removal.managed /\ removal.kixdns = "keep" => site'.program = site.program
      /\ site'.program => site.program
  BY <1>0 DEF UninstallTypes, Sites
<1>r. removal' = [removal EXCEPT !.pc = "account"] /\ removal'.pc = "account"
      /\ removal'.kixdns = removal.kixdns /\ removal'.managed = removal.managed /\ removal'.dead = removal.dead
  BY DEF UninstallTypes
<1>1. UninstallTypes'
  BY <1>0 DEF UninstallTypes, Sites, Units, Backups, Answers
<1>2. KnowsWhose'
  BY <1>0 DEF KnowsWhose, UninstallTypes, Sites, Removing
<1>3. StaysInv'
  <2> HIDE DEF RemoveData, DataGone, Proceed
  <2>0. /\ UNCHANGED <<firstSite, choices, stays>> /\ site.program \in BOOLEAN /\ site'.program \in BOOLEAN
        /\ removal.pc = "data" /\ removal.managed \in BOOLEAN
    BY <1>1 DEF RemoveData, UninstallTypes, Sites
  <2> QED
    <3>1. removal.kixdns = "remove" => site.env = "managed" /\ ~site.program
      BY <2>0 DEF KnowsWhose, Removing
    <3>2. site'.program /\ site'.unit \in ByPanel => SameKixdns'
      BY <1>s, <2>0 DEF StaysInv, SameKixdns
    <3>3. removal.kixdns = "keep" \/ removal.kixdns = "remove"
      BY DEF UninstallTypes, Answers
    <3>4. stays' => site'.env = "none" /\ site'.unit \in ByPanel /\ site'.program /\ removal'.managed
      BY <1>s, <1>r, <2>0, <3>1, <3>3 DEF StaysInv
    <3>5. firstSite'.env = "foreign" =>
            SameKixdns' /\ SameService' /\ ~removal'.managed /\ ~removal'.dead
      <4>1. firstSite.env = "foreign" => ~firstSite.program /\ firstSite.program \in BOOLEAN
        BY <1>0, HostsAreSites DEF UninstallTypes, Sites
      <4> QED
        BY <1>s, <1>r, <2>0, <4>1 DEF StaysInv, SameKixdns, SameService
    <3>6. (\A choice \in choices : choice.kixdns = "keep") /\ firstSite.program =>
            SameKixdns' /\ SameService' /\ removal'.managed
      BY <1>s, <1>r, <2>0 DEF StaysInv, SameKixdns, SameService
    <3>7. (\A choice \in choices : choice.kixdns = "keep") => removal'.kixdns = "keep"
      BY <1>r DEF StaysInv
    <3> QED
      BY <2>0, <3>2, <3>4, <3>5, <3>6, <3>7 DEF StaysInv
<1>4. GoesInv'
  BY <1>0, HostsAreSites DEF GoesInv, AllGoes, Nothing, BackupInv, ProgressInv, GoneInv,
     PanelIsGone, OriginalIsBack, UninstallTypes, Sites, Units, KnowsWhose, Removing
<1> QED
  BY <1>1, <1>2, <1>3, <1>4

LEMMA AccountGoes == ASSUME UninstallInv, RemovePanelAccount PROVE UninstallInv'
<1> USE UninstallAssumption, Steps DEF UninstallAssumption, UninstallInv, RemovePanelAccount,
   Proceed, RemovesKixdns, uninstallRest, NoRemoval
<1>0. firstSite' = firstSite /\ firstSite \in Sites
  BY HostsAreSites DEF UninstallTypes
<1>1. UninstallTypes'
  BY <1>0 DEF UninstallTypes, Sites, Units, Backups, Answers
<1>2. KnowsWhose'
  BY <1>0 DEF KnowsWhose, UninstallTypes, Sites, Removing
<1>3. StaysInv'
  BY <1>0, HostsAreSites DEF StaysInv, SameKixdns, SameService, UninstallTypes, Sites,
     KnowsWhose, Removing, ByPanel
<1>4. GoesInv'
  BY <1>0, HostsAreSites DEF GoesInv, AllGoes, Nothing, BackupInv, ProgressInv, GoneInv,
     PanelIsGone, OriginalIsBack, UninstallTypes, Sites, Units, KnowsWhose, Removing
<1> QED
  BY <1>1, <1>2, <1>3, <1>4

LEMMA KixdnsConfigGoes == ASSUME UninstallInv, RemoveKixdnsConfig PROVE UninstallInv'
<1> USE UninstallAssumption, Steps DEF UninstallAssumption, UninstallInv, RemoveKixdnsConfig,
   Proceed, RemovesKixdns, uninstallRest, NoRemoval
<1>0. firstSite' = firstSite /\ firstSite \in Sites
  BY HostsAreSites DEF UninstallTypes
<1>1. UninstallTypes'
  BY <1>0 DEF UninstallTypes, Sites, Units, Backups, Answers
<1>2. KnowsWhose'
  BY <1>0 DEF KnowsWhose, UninstallTypes, Sites, Removing
<1>3. StaysInv'
  BY <1>0, HostsAreSites DEF StaysInv, SameKixdns, SameService, UninstallTypes, Sites,
     KnowsWhose, Removing, ByPanel
<1>4. GoesInv'
  BY <1>0, HostsAreSites DEF GoesInv, AllGoes, Nothing, BackupInv, ProgressInv, GoneInv,
     PanelIsGone, OriginalIsBack, UninstallTypes, Sites, Units, KnowsWhose, Removing
<1> QED
  BY <1>1, <1>2, <1>3, <1>4

LEMMA KixdnsAccountGoes == ASSUME UninstallInv, RemoveKixdnsAccount PROVE UninstallInv'
<1> USE UninstallAssumption, Steps DEF UninstallAssumption, UninstallInv, RemoveKixdnsAccount,
   Proceed, RemovesKixdns, uninstallRest, NoRemoval
<1>0. firstSite' = firstSite /\ firstSite \in Sites
  BY HostsAreSites DEF UninstallTypes
<1>1. UninstallTypes'
  BY <1>0 DEF UninstallTypes, Sites, Units, Backups, Answers
<1>2. KnowsWhose'
  BY <1>0 DEF KnowsWhose, UninstallTypes, Sites, Removing
<1>3. StaysInv'
  BY <1>0, HostsAreSites DEF StaysInv, SameKixdns, SameService, UninstallTypes, Sites,
     KnowsWhose, Removing, ByPanel
<1>4. GoesInv'
  BY <1>0, HostsAreSites DEF GoesInv, AllGoes, Nothing, BackupInv, ProgressInv, GoneInv,
     PanelIsGone, OriginalIsBack, UninstallTypes, Sites, Units, KnowsWhose, Removing
<1> QED
  BY <1>1, <1>2, <1>3, <1>4

LEMMA SettingsGo == ASSUME UninstallInv, RemoveSettings PROVE UninstallInv'
<1> USE UninstallAssumption, Steps DEF UninstallAssumption, UninstallInv, RemoveSettings,
   Proceed, RemovesKixdns, uninstallRest, NoRemoval
<1>0. firstSite' = firstSite /\ firstSite \in Sites
  BY HostsAreSites DEF UninstallTypes
<1>1. UninstallTypes'
  BY <1>0 DEF UninstallTypes, Sites, Units, Backups, Answers
<1>2. KnowsWhose'
  BY <1>0 DEF KnowsWhose, UninstallTypes, Sites, Removing
<1>3. StaysInv'
  BY <1>0, HostsAreSites DEF StaysInv, SameKixdns, SameService, UninstallTypes, Sites,
     KnowsWhose, Removing, ByPanel
<1>4. GoesInv'
  <2> SUFFICES ASSUME AllGoes' PROVE GoesInv'
    BY DEF GoesInv
  <2>0. AllGoes /\ GoesInv
    BY <1>0 DEF AllGoes
  <2>1. BackupInv'
    BY <1>0, <2>0 DEF GoesInv, BackupInv, KnowsWhose, UninstallTypes, Sites, Removing
  <2>2. ProgressInv'
    BY <1>0, <2>0 DEF GoesInv, ProgressInv, BackupInv, KnowsWhose, UninstallTypes, Sites,
       Removing
  <2>3. GoneInv'
    <3>1. /\ site' = [site EXCEPT !.env = "none"] /\ removal' = [removal EXCEPT !.pc = "running"]
          /\ removal.pc = "settings" /\ site \in Sites /\ UNCHANGED <<firstSite, lost>>
      BY DEF UninstallTypes
    <3>2. CASE site.env = "none"
      BY <3>1, <3>2, <2>0 DEF GoesInv, GoneInv, Nothing, PanelIsGone, OriginalIsBack, Sites,
         UninstallTypes
    <3>3. CASE site.env = "managed"
      <4>1. /\ removal.kixdns = "remove" /\ Removing(FromSettings) /\ Removing(FromUser)
            /\ Removing(FromConfig) /\ Removing(FromAccount) /\ Removing(FromData)
            /\ Removing(FromListener) /\ Removing(FromOriginal) /\ Removing(FromUnit)
        BY <2>0, <3>1, <3>3 DEF GoesInv, Removing
      <4>2. PanelIsGone'
        <5>1. /\ site.up = NoUnit /\ site.unit \in {NoUnit, "original"}
              /\ ~site.off /\ ~site.record /\ ~site.data /\ "kixdns-panel" \notin site.accounts
          BY <2>0, <4>1 DEF GoesInv, ProgressInv
        <5>2. ~site.program
          BY <4>1 DEF KnowsWhose
        <5>3. /\ site'.up = site.up /\ site'.unit = site.unit /\ site'.off = site.off
              /\ site'.record = site.record /\ site'.data = site.data /\ site'.env = "none"
              /\ site'.accounts = site.accounts /\ site'.program = site.program
          BY <3>1 DEF Sites
        <5> QED
          BY <5>1, <5>2, <5>3 DEF PanelIsGone, ByPanel
      <4>3. firstSite.backup = NoUnit => Nothing'
        BY <2>0, <3>1, <4>1, <4>2 DEF Nothing, PanelIsGone, GoesInv, ProgressInv, BackupInv,
           Sites
      <4>4. removal'.kixdns = "remove" /\ (lost \/ removal'.backup = firstSite.backup) /\ site'.backup = NoUnit
        BY <2>0, <3>1, <3>3, <4>1 DEF GoesInv, BackupInv, ProgressInv, Sites, UninstallTypes
      <4> QED
        BY <3>1, <4>2, <4>3, <4>4 DEF GoneInv
    <3> QED
      BY <2>0, <3>2, <3>3 DEF GoesInv
  <2> QED
    BY <1>0, <2>0, <2>1, <2>2, <2>3 DEF GoesInv, KnowsWhose, UninstallTypes, Sites, Removing,
       GoneInv
<1> QED
  BY <1>1, <1>2, <1>3, <1>4

LEMMA UninstallEnds == ASSUME UninstallInv, EndUninstall PROVE UninstallInv'
<1> USE UninstallAssumption, Steps DEF UninstallAssumption, UninstallInv, EndUninstall,
   Proceed, RemovesKixdns, KeptEarlier, uninstallRest, NoRemoval
<1>0. firstSite' = firstSite /\ firstSite \in Sites
  BY HostsAreSites DEF UninstallTypes
<1>1. UninstallTypes'
  BY <1>0 DEF UninstallTypes, Sites, Units, Backups, Answers
<1>2. KnowsWhose'
  BY <1>0 DEF KnowsWhose, UninstallTypes, Sites, Removing
<1>3. StaysInv'
  BY <1>0, HostsAreSites DEF StaysInv, SameKixdns, SameService, UninstallTypes, Sites,
     KnowsWhose, Removing, ByPanel
<1>4. GoesInv'
  BY <1>0, HostsAreSites DEF GoesInv, AllGoes, Nothing, BackupInv, ProgressInv, GoneInv,
     PanelIsGone, OriginalIsBack, UninstallTypes, Sites, Units, KnowsWhose, Removing
<1> QED
  BY <1>1, <1>2, <1>3, <1>4

LEMMA UninstallIsCut == ASSUME UninstallInv, UninstallFails PROVE UninstallInv'
<1> USE UninstallAssumption, Steps DEF UninstallAssumption, UninstallInv, UninstallFails,
   Proceed, RemovesKixdns, uninstallRest, NoRemoval
<1>0. firstSite' = firstSite /\ firstSite \in Sites
  BY HostsAreSites DEF UninstallTypes
<1>1. UninstallTypes'
  BY <1>0 DEF UninstallTypes, Sites, Units, Backups, Answers
<1>2. KnowsWhose'
  BY <1>0 DEF KnowsWhose, UninstallTypes, Sites, Removing
<1>3. StaysInv'
  BY <1>0, HostsAreSites DEF StaysInv, SameKixdns, SameService, UninstallTypes, Sites,
     KnowsWhose, Removing, ByPanel
<1>4. GoesInv'
  <2> SUFFICES ASSUME AllGoes' PROVE GoesInv'
    BY DEF GoesInv
  <2>0. AllGoes /\ GoesInv
    BY <1>0 DEF AllGoes
  <2>1. BackupInv'
    BY <1>0, <2>0 DEF GoesInv, BackupInv, KnowsWhose, UninstallTypes, Sites, Removing
  <2>2. ProgressInv'
    BY <1>0, <2>0 DEF GoesInv, ProgressInv, BackupInv, KnowsWhose, UninstallTypes, Sites,
       Removing
  <2>3. GoneInv'
    BY <1>0, <2>0, HostsAreSites DEF GoesInv, GoneInv, ProgressInv, BackupInv, Nothing,
       PanelIsGone, OriginalIsBack,
       KnowsWhose, UninstallTypes, Sites, Removing, AllGoes
  <2> QED
    BY <1>0, <2>0, <2>1, <2>2, <2>3 DEF GoesInv, KnowsWhose, UninstallTypes, Sites, Removing,
       GoneInv
<1> QED
  BY <1>1, <1>2, <1>3, <1>4

LEMMA UninstallBegins == ASSUME UninstallInv, BeginUninstall PROVE UninstallInv'
<1> USE UninstallAssumption, Steps DEF UninstallAssumption, UninstallInv, BeginUninstall,
   Proceed, RemovesKixdns, ActionOf, ManagedSite, KeptEarlier, uninstallRest, NoRemoval
<1>0. firstSite' = firstSite /\ firstSite \in Sites
  BY HostsAreSites DEF UninstallTypes
<1>p. PICK kixdns \in Answers, config \in Answers :
       LET action == ActionOf(site, kixdns) IN
       /\ config = "remove" /\ ManagedSite(site) /\ action = "keep" => site.program
       /\ removal' = [pc |-> "components", kixdns |-> action, config |-> config,
                      managed |-> ManagedSite(site), backup |-> site.backup,
                      dead |-> site.env = "none" /\ site.unit = "panel" /\ ~site.program]
       /\ choices' = choices \union {[kixdns |-> kixdns, config |-> config]}
  BY DEF Answers
<1>a. ActionOf(site, kixdns) \in Answers
  BY DEF Answers
<1>m. ManagedSite(site) \in BOOLEAN /\ ActionOf(site, kixdns) \in {"keep", kixdns}
  BY DEF UninstallTypes, Sites
<1> DEFINE managed == ManagedSite(site)
           action == ActionOf(site, kixdns)
           dead == site.env = "none" /\ site.unit = "panel" /\ ~site.program
<1>r. /\ removal' = [pc |-> "components", kixdns |-> action, config |-> config,
                     managed |-> managed, backup |-> site.backup, dead |-> dead]
      /\ removal.pc = "idle"
      /\ config = "remove" /\ managed /\ action = "keep" => site.program
      /\ choices' = choices \union {[kixdns |-> kixdns, config |-> config]}
      /\ ended' = FALSE /\ UNCHANGED <<site, firstSite, stays, lost>>
  BY <1>p
<1>f. /\ managed <=> site.env = "managed" \/ (site.env = "none" /\ site.unit \in ByPanel /\ site.program)
      /\ action = "remove" => site.env = "managed"
      /\ site.env = "managed" => action = kixdns
      /\ action \in Answers /\ managed \in BOOLEAN /\ dead \in BOOLEAN
  BY <1>m, <1>a DEF Answers
<1> HIDE DEF managed, action, dead, BeginUninstall, NoRemoval
<1>1. UninstallTypes'
  <2>1. site \in Sites /\ site.backup \in Backups
    BY DEF UninstallTypes, Sites
  <2> QED
    <3>1. removal' \in [pc : RemovalPcs, kixdns : Answers, config : Answers, managed : BOOLEAN,
                       dead : BOOLEAN, backup : Backups]
      BY <1>r, <1>f, <2>1
    <3>2. choices' \subseteq [kixdns : Answers, config : Answers]
      BY <1>r DEF UninstallTypes
    <3> QED
      BY <1>r, <3>1, <3>2, <2>1 DEF UninstallTypes
<1>d. dead => site.env = "none" /\ site.unit = "panel" /\ ~site.program
  BY DEF dead
<1>2. KnowsWhose'
  BY <1>r, <1>f, <1>d DEF KnowsWhose, Removing
<1>3. StaysInv'
  <2>1. (\A choice \in choices' : choice.kixdns = "keep") =>
          (\A choice \in choices : choice.kixdns = "keep") /\ kixdns = "keep"
    <3> DEFINE asked == [kixdns |-> kixdns, config |-> config]
    <3>1. asked.kixdns = kixdns
      OBVIOUS
    <3> HIDE DEF asked
    <3>2. choices' = choices \union {asked}
      BY <1>r DEF asked
    <3> QED
      BY <3>1, <3>2
  <2>2. kixdns = "keep" => action = "keep"
    BY <1>m DEF action
  <2>3. firstSite.env = "foreign" => site.env # "managed" /\ ~site.program /\ site.unit = "original"
    BY <1>0, HostsAreSites DEF KnowsWhose, StaysInv, SameKixdns, UninstallTypes
  <2>4. firstSite.program => firstSite.unit \in ByPanel
    BY HostsAreSites, HostsWithProgram DEF UninstallTypes
  <2>5. site.env \in {"managed", "foreign", "none"}
    BY DEF UninstallTypes, Sites
  <2> QED
    <3>1. UNCHANGED <<site, firstSite, stays>> /\ removal'.pc = "components" /\ removal'.kixdns = action
          /\ removal'.managed = managed /\ removal'.dead = dead
      BY <1>r
    <3> USE DEF StaysInv, SameKixdns, SameService
    <3>2. site'.program /\ site'.unit \in ByPanel => SameKixdns'
      BY <3>1
    <3>3. stays' => site'.env = "none" /\ site'.unit \in ByPanel /\ site'.program /\ removal'.managed
      BY <3>1, <1>f
    <3>4. firstSite'.env = "foreign" =>
            SameKixdns' /\ SameService' /\ ~removal'.managed /\ ~removal'.dead
      BY <3>1, <1>f, <1>d, <2>3 DEF ByPanel
    <3>5. (\A choice \in choices' : choice.kixdns = "keep") =>
            /\ removal'.kixdns = "keep"
            /\ firstSite'.program => SameKixdns' /\ SameService' /\ removal'.managed
      <4> SUFFICES ASSUME \A choice \in choices' : choice.kixdns = "keep"
                   PROVE  /\ removal'.kixdns = "keep"
                          /\ firstSite'.program => SameKixdns' /\ SameService' /\ removal'.managed
        OBVIOUS
      <4>1. action = "keep" /\ (firstSite.program => SameKixdns /\ SameService)
        BY <2>1, <2>2
      <4>2. firstSite.program => managed
        <5>1. firstSite.program => site.program /\ site.unit \in ByPanel
          BY <4>1, <2>4 DEF SameKixdns
        <5>2. site.env = "foreign" => ~site.program
          BY <2>3 DEF KnowsWhose
        <5> QED
          BY <1>f, <2>5, <5>1, <5>2
      <4> QED
        BY <3>1, <4>1, <4>2
    <3> HIDE DEF StaysInv, SameKixdns, SameService
    <3> QED
      BY <3>2, <3>3, <3>4, <3>5 DEF StaysInv
<1>4. GoesInv'
  <2> SUFFICES ASSUME AllGoes' PROVE GoesInv'
    BY DEF GoesInv
  <2>0. /\ AllGoes /\ GoesInv /\ kixdns = "remove" /\ config = "remove"
        /\ firstSite.env = "managed"
    <3>1. [kixdns |-> kixdns, config |-> config] = [kixdns |-> "remove", config |-> "remove"]
      BY <1>r DEF AllGoes
    <3> QED
      BY <1>0, <1>r, <3>1 DEF AllGoes
  <2>1. removal'.pc = "components" /\ removal'.kixdns = action /\ removal'.config = "remove"
        /\ removal'.backup = site.backup /\ removal'.dead = dead
    BY <1>r, <2>0
  <2>2. BackupInv'
    BY <1>r, <2>0, <2>1 DEF GoesInv, BackupInv
  <2>3. ProgressInv'
    BY <1>r, <2>1 DEF ProgressInv, Removing
  <2>4. GoneInv'
    <3>1. GoneInv /\ UNCHANGED <<site, firstSite, lost>> /\ removal.kixdns = "keep"
      BY <1>r, <2>0 DEF GoesInv, KnowsWhose, NoRemoval
    <3>2. PanelIsGone' = PanelIsGone /\ Nothing' = Nothing /\ OriginalIsBack' = OriginalIsBack
      BY <3>1 DEF PanelIsGone, Nothing, OriginalIsBack
    <3>3. site.env = "none" => action = "keep" /\ action # "remove"
      BY <1>f DEF Answers
    <3>4. site.env = "none" => site.backup = NoUnit
      BY <3>1, <2>0 DEF GoesInv, GoneInv
    <3> QED
      BY <2>1, <3>1, <3>2, <3>3, <3>4 DEF GoneInv
  <2> QED
    BY <1>r, <1>f, <1>d, <2>0, <2>1, <2>2, <2>3, <2>4 DEF GoesInv, GoneInv, PanelIsGone
<1> QED
  BY <1>1, <1>2, <1>3, <1>4

---------------------------------------------------------------------------
(* The theorems.                                                           *)

LEMMA UninstallInitially == UninstallInit => UninstallInv
<1> SUFFICES ASSUME UninstallInit PROVE UninstallInv
  OBVIOUS
<1> USE Steps DEF UninstallInit, NoRemoval
<1>0. site \in UninstallHosts /\ firstSite = site /\ site \in Sites
  BY HostsAreSites
<1>1. UninstallTypes
  BY <1>0, UninstallAssumption DEF UninstallTypes, Answers, Backups, KeptEarlier, Sites
<1>2. KnowsWhose
  BY DEF KnowsWhose, Removing
<1>3. StaysInv
  BY <1>0, HostsAreSites DEF StaysInv, SameKixdns, SameService, KeptEarlier
<1>4. GoesInv
  BY <1>0, HostsAreSites DEF GoesInv, AllGoes, BackupInv, ProgressInv, GoneInv, Removing
<1> QED
  BY <1>1, <1>2, <1>3, <1>4 DEF UninstallInv

LEMMA UninstallSteps == UninstallInv /\ [UninstallNext]_uninstallVars => UninstallInv'
<1> SUFFICES ASSUME UninstallInv, [UninstallNext]_uninstallVars PROVE UninstallInv'
  OBVIOUS
<1>1. CASE UNCHANGED uninstallVars
  BY <1>1 DEF uninstallVars, UninstallInv, UninstallTypes, KnowsWhose, StaysInv, SameKixdns,
     SameService, GoesInv, AllGoes, BackupInv, ProgressInv, GoneInv, Nothing, PanelIsGone,
     OriginalIsBack, Removing
<1>2. CASE UninstallNext
  BY <1>2, ComponentsGo, DeadUnitGoes, UnitStops, UnitGoes, ProgramGoes, OriginalReturns,
     ListenerReturns, DataGoes, AccountGoes, KixdnsConfigGoes, KixdnsAccountGoes, SettingsGo,
     UninstallEnds, UninstallIsCut, UninstallBegins DEF UninstallNext
<1> QED
  BY <1>1, <1>2

\* What the uninstaller's variables and the host are at each of its steps, over any number of
\* runs that fail anywhere (scripts/uninstall.sh).
THEOREM UninstallInvariant == UninstallSpec => []UninstallInv
BY UninstallInitially, UninstallSteps, PTL DEF UninstallSpec

\* Whatever was interrupted before: asked to remove everything, the run that ends has removed it or
\* brought the original back; what is to stay stays (scripts/uninstall.sh).
THEOREM AskedIsAlwaysDone == UninstallSpec => []AskedIsDone
<1>1. UninstallInv => AskedIsDone
  <2> SUFFICES ASSUME UninstallInv PROVE AskedIsDone
    OBVIOUS
  <2>1. ASSUME ended, EverythingGoes, firstSite.env = "managed"
        PROVE  /\ PanelIsGone
               /\ IF firstSite.backup = NoUnit
                  THEN site.unit = NoUnit /\ ~site.config /\ site.accounts = {}
                  ELSE lost \/ OriginalIsBack
    BY <2>1 DEF UninstallInv, GoesInv, AllGoes, EverythingGoes, GoneInv, Nothing, KnowsWhose,
       NoRemoval
  <2>2. ASSUME stays \/ firstSite.env = "foreign" \/ (KixdnsStays /\ firstSite.program)
        PROVE  SameKixdns /\ (KixdnsStays => SameService)
    BY <2>2 DEF UninstallInv, StaysInv, KixdnsStays, SameKixdns
  <2> QED
    BY <2>1, <2>2 DEF AskedIsDone, SameKixdns, SameService
<1> QED
  BY <1>1, UninstallInvariant, PTL
=====================================================================================
