--------------------------- MODULE MCConfigFiles ---------------------------
(***************************************************************************)
(* What lies on the disk, in one run: how a configuration is applied, which *)
(* Geo data and list files are kept for which version, what the merged      *)
(* lists say, and how the panel is installed, updated and removed.  A       *)
(* behaviour is one of these parts; ConfigApply treats the files as part of *)
(* a content, GeoFiles treats an apply as one step, and the installer runs  *)
(* beside a panel whose own changes are one step.                           *)
(***************************************************************************)
EXTENDS ConfigApply, GeoFiles, BlocklistRules, PanelInstall, PanelUninstall

VARIABLE part

hostVars == <<installVars, uninstallVars>>
filesVars == <<part, vars, geoVars, rulesVars, hostVars>>

FilesInit ==
  /\ part \in {"apply", "geo", "rules", "install", "uninstall"}
  /\ Init /\ (part # "apply" => kernel = Stopped) /\ RulesInit
  /\ GeoInit /\ (part # "geo" => seedMarker)
  /\ InstallInit /\ (part # "install" => sound = {} /\ disk = NoPieces)
  /\ UninstallInit /\ (part # "uninstall" => site = CHOOSE host \in UninstallHosts : TRUE)

Apply(action) ==
  part = "apply" /\ action /\ UNCHANGED <<part, geoVars, rulesVars, hostVars>>
Geo(action) ==
  part = "geo" /\ action /\ UNCHANGED <<part, vars, rulesVars, hostVars>>
Rules(action) ==
  part = "rules" /\ action /\ UNCHANGED <<part, vars, geoVars, hostVars>>
Installer(action) ==
  part = "install" /\ action /\ UNCHANGED <<part, vars, geoVars, rulesVars, uninstallVars>>
Uninstaller(action) ==
  part = "uninstall" /\ action /\ UNCHANGED <<part, vars, geoVars, rulesVars, installVars>>

\* Without ConfigApply's Fault, which cannot happen while Faults = {}; config_apply_faults
\* has them.
ApplyPart ==
  \/ Apply(Request) \/ Apply(Schedule) \/ Apply(Candidate) \/ Apply(System) \/ Apply(Kernel)

GeoPart ==
  \/ \E p \in Pages : \/ Geo(SyncGeoData(p)) \/ Geo(ImportBuiltin(p))
                      \/ Geo(BuildBlocklists(p)) \/ Geo(CleanUp(p))
  \/ \E a \in Actors :
       \/ Geo(Download(a)) \/ Geo(StoreManifest(a)) \/ Geo(FetchLists(a))
       \/ Geo(MergeLists(a)) \/ Geo(RecordLists(a)) \/ Geo(ForgetLists(a))
       \/ Geo(FindUnreferenced(a)) \/ Geo(RemoveFile(a)) \/ Geo(EndCleanup(a))
  \/ Geo(ScheduledGeoUpdate) \/ Geo(SeedBuiltin) \/ Geo(ApplyGeoData)
  \/ Geo(ScheduledRefresh) \/ Geo(RecallSources) \/ Geo(ApplyLists)
  \/ Geo(LoadDraft) \/ Geo(SaveDraft) \/ Geo(RestoreVersion) \/ Geo(NewCopy)
  \/ Geo(GeoRestart)

RulesPart == (\E u \in Links : Rules(FetchList(u))) \/ Rules(Subscribe)

InstallPart ==
  \/ Installer(Install) \/ Installer(PreserveExternal) \/ Installer(StopPanel)
  \/ Installer(SaveDatabase) \/ Installer(HaltKixdns) \/ Installer(PutPiece)
  \/ Installer(EnableServices) \/ Installer(StartNewPanel) \/ Installer(VerifyServices)
  \/ Installer(StepFails) \/ Installer(UndoServices) \/ Installer(UndoPiece)
  \/ Installer(UndoKixdns) \/ Installer(UndoPanel)
  \/ Installer(StartPanelUpdate) \/ Installer(ShowChecking) \/ Installer(CompareReleases)
  \/ Installer(RunInstaller) \/ Installer(UpdateFails) \/ Installer(ReportUpdate)
  \/ Installer(StatusAges) \/ Installer(PanelChanges)
  \/ Installer(InstallerKilled) \/ Installer(PowerLoss)

UninstallPart ==
  \/ Uninstaller(BeginUninstall) \/ Uninstaller(RemoveComponents)
  \/ Uninstaller(RemoveDeadUnit) \/ Uninstaller(StopUnit) \/ Uninstaller(RemoveUnit)
  \/ Uninstaller(RemoveProgram) \/ Uninstaller(PutOriginal) \/ Uninstaller(RestoreListener)
  \/ Uninstaller(RemoveData) \/ Uninstaller(RemovePanelAccount)
  \/ Uninstaller(RemoveKixdnsConfig) \/ Uninstaller(RemoveKixdnsAccount)
  \/ Uninstaller(RemoveSettings) \/ Uninstaller(EndUninstall) \/ Uninstaller(UninstallFails)

FilesNext == ApplyPart \/ GeoPart \/ RulesPart \/ InstallPart \/ UninstallPart

FilesSpec == FilesInit /\ [][FilesNext]_filesVars

\* The file built last means what the lists in use say (MergedMeansTheLists, looked at where
\* the lists change).
MergedListsHold == part = "rules" => MergedMeansTheLists

---------------------------------------------------------------------------
(* Values of the constants: the file found at the first start is written    *)
(* another way than the panel's own; what the links give out, and the names *)
(* asked for.                                                              *)

AsImported ==
  [c \in Configs |-> IF c = Initial THEN CHOOSE d \in Valid \ {Initial} : TRUE ELSE c]

Plain(allow, body, mods) == Written(allow, "||", body, "^", mods)
Ads == <<"a", "com">>
ListContents == {
  <<Comment, Plain(FALSE, Ads, <<>>), Written(FALSE, "", <<"b", "net">>, "", <<>>),
    Hosts(TRUE, <<<<"localhost">>, <<"w", "a", "com">>>>),
    Written(FALSE, "|", <<"x">>, "^", <<>>)>>,
  <<Plain(TRUE, Ads, <<>>), Plain(FALSE, Ads, <<"important">>)>>,
  <<Written(TRUE, "|", <<"w", "a", "com">>, "|", <<"important">>),
    Written(FALSE, "", <<"*", "com">>, "", <<>>)>>,
  <<Plain(FALSE, Ads, <<"badfilter">>), Written(FALSE, "||", <<"b">>, "", <<>>)>>,
  <<Plain(FALSE, Ads, <<"badfilter", "important">>), Written(FALSE, "", <<"b", "">>, "^", <<>>),
    Plain(FALSE, <<"net", "">>, <<>>)>>,
  <<Written(FALSE, "://", <<"a", "*">>, "", <<>>), Written(FALSE, "||", <<"*", "net">>, "^|", <<>>)>>,
  <<Plain(FALSE, Ads, <<"client">>), Plain(FALSE, <<"", "com">>, <<>>),
    Written(FALSE, "", <<"*">>, "", <<>>), [kind |-> "cosmetic"]>>,
  <<Written(FALSE, "", <<"b", "net">>, "", <<>>), Hosts(FALSE, <<Ads>>)>> }
NamesAsked == {Ads, <<"w", "a", "com">>, <<"b", "net">>, <<"a", "b", "com">>}
=============================================================================
