--------------------------- MODULE PanelUninstall ---------------------------
(***************************************************************************)
(* uninstall.sh: it removes the panel and, when asked to, KixDNS and the    *)
(* settings.  Nothing takes a run back that fails or is interrupted: it is *)
(* run again, and has to find out from what is left whose KixDNS this is.  *)
(* The host has one KixDNS unit: the panel's, one of the user's that runs  *)
(* the panel's program, or the original one that never was the panel's.    *)
(***************************************************************************)
EXTENDS Integers, FiniteSets

CONSTANTS
  NoUnit,            \* no unit, no backup, nothing running
  MaxUninstallRuns   \* runs of the uninstaller

ByPanel == {"panel", "user"}   \* units that run the program in the panel's directory

ASSUME UninstallAssumption ==
  /\ MaxUninstallRuns \in Nat
  /\ NoUnit \notin ByPanel \union {"original"} \union [up : BOOLEAN, boots : BOOLEAN]

VARIABLES
  site,       \* the host
  removal,    \* the run: its program counter and its variables
  ended,      \* the last run ended as it should
  choices,    \* history: what the runs so far were asked to do
  firstSite,  \* history: the host as it was before the first run
  stays,      \* history: a run that ended kept KixDNS without the settings
  lost,       \* history: a run was interrupted after it had removed the backup
  uninstallRuns

uninstallVars == <<site, removal, ended, choices, firstSite, stays, lost, uninstallRuns>>

uninstallRest == <<ended, choices, firstSite, stays, lost, uninstallRuns>>

NoRemoval == [pc |-> "idle", kixdns |-> "keep", config |-> "keep", managed |-> FALSE,
              dead |-> FALSE, backup |-> NoUnit]
Proceed(pc) == removal' = [removal EXCEPT !.pc = pc]

---------------------------------------------------------------------------
(* The hosts.                                                              *)

\* What panel.env says of KixDNS ("none": there is no panel.env), the unit, what runs, what the
\* boot starts, the panel's program, the backup of a migrated host, /etc/kixdns, the panel's
\* data, the accounts, whether systemd-resolved's listener is off, and its record.
SiteOf(env, unit, up, program, backup, off) ==
  [env |-> env, unit |-> unit, up |-> IF up THEN unit ELSE NoUnit, boots |-> up,
   program |-> program, backup |-> backup, config |-> TRUE, data |-> env # "none",
   accounts |-> IF env = "none" THEN {"kixdns"} ELSE {"kixdns", "kixdns-panel"},
   off |-> off, record |-> off]

\* Installed afresh, migrated, of the panel-only mode there once was, and what an uninstall
\* that kept KixDNS leaves, with its program and without.
UninstallHosts ==
  {SiteOf("managed", "panel", up, TRUE, NoUnit, off) : up, off \in BOOLEAN}
  \union {SiteOf("managed", "panel", up, TRUE, [up |-> was, boots |-> boots], FALSE) :
            up, was, boots \in BOOLEAN}
  \union {SiteOf("foreign", "original", up, FALSE, NoUnit, FALSE) : up \in BOOLEAN}
  \union {SiteOf("none", unit, up, up, NoUnit, FALSE) : unit \in ByPanel, up \in BOOLEAN}

\* detect_kept_kixdns: without panel.env, a unit that runs a program that is there.
KeptEarlier(host) == host.env = "none" /\ host.unit \in ByPanel /\ host.program

UninstallInit ==
  /\ site \in UninstallHosts /\ firstSite = site
  /\ removal = NoRemoval /\ ended = FALSE
  /\ choices = {} /\ stays = KeptEarlier(site) /\ lost = FALSE /\ uninstallRuns = 0

---------------------------------------------------------------------------
(* A run.                                                                  *)

\* load_settings
ManagedSite(host) == host.env = "managed" \/ KeptEarlier(host)

\* choose_kixdns_action: what was kept earlier, or is not the panel's, is kept.
ActionOf(host, kixdns) == IF host.env = "managed" THEN kixdns ELSE "keep"

\* Every question and check before the first change; a KixDNS that is to be kept while its
\* directory goes must be there.
BeginUninstall ==
  /\ removal.pc = "idle" /\ uninstallRuns < MaxUninstallRuns
  /\ \E kixdns, config \in {"keep", "remove"} :
       LET action == ActionOf(site, kixdns) IN
       /\ config = "remove" /\ ManagedSite(site) /\ action = "keep" => site.program
       /\ removal' = [pc |-> "components", kixdns |-> action, config |-> config,
                      managed |-> ManagedSite(site), backup |-> site.backup,
                      dead |-> site.env = "none" /\ site.unit = "panel" /\ ~site.program]
       /\ choices' = choices \union {[kixdns |-> kixdns, config |-> config]}
  /\ ended' = FALSE /\ uninstallRuns' = uninstallRuns + 1
  /\ UNCHANGED <<site, firstSite, stays, lost>>

RemovesKixdns == removal.managed /\ removal.kixdns = "remove"

\* remove_panel_components: the panel's own services and programs, of which nothing else tells.
RemoveComponents ==
  /\ removal.pc = "components"
  /\ Proceed(IF removal.dead THEN "dead" ELSE IF RemovesKixdns THEN "stop" ELSE "listener")
  /\ UNCHANGED <<site, uninstallRest>>

\* A unit the panel made whose program is gone.
RemoveDeadUnit ==
  /\ removal.pc = "dead" /\ Proceed("listener")
  /\ site' = [site EXCEPT !.unit = NoUnit, !.up = NoUnit, !.boots = FALSE]
  /\ UNCHANGED uninstallRest

\* remove_managed_kixdns: the service, its unit, the program, and the unit from the backup.
StopUnit ==
  /\ removal.pc = "stop" /\ Proceed("unit")
  /\ site' = [site EXCEPT !.up = NoUnit, !.boots = FALSE]
  /\ UNCHANGED uninstallRest

RemoveUnit ==
  /\ removal.pc = "unit" /\ Proceed("program") /\ site' = [site EXCEPT !.unit = NoUnit]
  /\ UNCHANGED uninstallRest

RemoveProgram ==
  /\ removal.pc = "program" /\ site' = [site EXCEPT !.program = FALSE]
  /\ Proceed(IF removal.backup = NoUnit THEN "listener" ELSE "original")
  /\ UNCHANGED uninstallRest

PutOriginal ==
  /\ removal.pc = "original" /\ Proceed("listener") /\ site' = [site EXCEPT !.unit = "original"]
  /\ UNCHANGED uninstallRest

\* restore_resolved_stub: a KixDNS that stays keeps the port.
RestoreListener ==
  /\ removal.pc = "listener" /\ Proceed(IF removal.config = "remove" THEN "data" ELSE "running")
  /\ site' = IF site.record /\ removal.kixdns = "remove"
             THEN [site EXCEPT !.off = FALSE, !.record = FALSE] ELSE site
  /\ UNCHANGED uninstallRest

\* What is left when the data has gone: all but the data while a unit runs the program in
\* it, or KixDNS is to stay, else none of it.
DataGone ==
  IF \/ removal.managed /\ removal.kixdns = "keep"
     \/ site.program /\ site.unit \in ByPanel
  THEN [site EXCEPT !.data = FALSE, !.backup = NoUnit]
  ELSE [site EXCEPT !.data = FALSE, !.backup = NoUnit, !.program = FALSE, !.record = FALSE]

\* Mutant: the settings go with the data.
RemoveDataAndSettings ==
  /\ removal.pc = "data" /\ Proceed("account") /\ site' = [DataGone EXCEPT !.env = "none"]
  /\ UNCHANGED uninstallRest

\* remove_panel_state, up to the accounts.
RemoveData ==
  /\ removal.pc = "data" /\ Proceed("account") /\ site' = DataGone
  /\ UNCHANGED uninstallRest

RemovePanelAccount ==
  /\ removal.pc = "account" /\ site' = [site EXCEPT !.accounts = @ \ {"kixdns-panel"}]
  /\ Proceed(IF RemovesKixdns /\ removal.backup = NoUnit THEN "config" ELSE "settings")
  /\ UNCHANGED uninstallRest

RemoveKixdnsConfig ==
  /\ removal.pc = "config" /\ Proceed("user") /\ site' = [site EXCEPT !.config = FALSE]
  /\ UNCHANGED uninstallRest

RemoveKixdnsAccount ==
  /\ removal.pc = "user" /\ Proceed("settings")
  /\ site' = [site EXCEPT !.accounts = @ \ {"kixdns"}]
  /\ UNCHANGED uninstallRest

\* panel.env goes last.
RemoveSettings ==
  /\ removal.pc = "settings" /\ Proceed("running") /\ site' = [site EXCEPT !.env = "none"]
  /\ UNCHANGED uninstallRest

\* restore_external_state, and the run tells its result.
EndUninstall ==
  /\ removal.pc = "running" /\ removal' = NoRemoval /\ ended' = TRUE
  /\ site' = IF RemovesKixdns /\ removal.backup # NoUnit
             THEN [site EXCEPT !.boots = removal.backup.boots,
                               !.up = IF removal.backup.up THEN "original" ELSE NoUnit]
             ELSE site
  /\ stays' = (stays \/ KeptEarlier(site))
  /\ UNCHANGED <<choices, firstSite, lost, uninstallRuns>>

\* A service that does not stop, an account that cannot be removed, a signal: the run ends there.
UninstallFails ==
  /\ removal.pc # "idle" /\ removal' = NoRemoval
  /\ lost' = (lost \/ removal.backup # site.backup)
  /\ UNCHANGED <<site, ended, choices, firstSite, stays, uninstallRuns>>

UninstallNext ==
  \/ BeginUninstall \/ RemoveComponents \/ RemoveDeadUnit \/ StopUnit \/ RemoveUnit
  \/ RemoveProgram \/ PutOriginal \/ RestoreListener \/ RemoveData \/ RemovePanelAccount
  \/ RemoveKixdnsConfig \/ RemoveKixdnsAccount \/ RemoveSettings \/ EndUninstall
  \/ UninstallFails

UninstallSpec == UninstallInit /\ [][UninstallNext]_uninstallVars

---------------------------------------------------------------------------
(* Properties.                                                             *)

EverythingGoes == choices = {[kixdns |-> "remove", config |-> "remove"]}
KixdnsStays == choices # {} /\ \A choice \in choices : choice.kixdns = "keep"

\* The original KixDNS is back as it was before the migration.
OriginalIsBack ==
  /\ site.unit = "original" /\ site.boots = firstSite.backup.boots
  /\ site.up = IF firstSite.backup.up THEN "original" ELSE NoUnit

\* Nothing of the panel's is left.
PanelIsGone ==
  /\ ~site.program /\ site.unit # "panel" /\ site.up # "panel"
  /\ ~site.off /\ ~site.record /\ ~site.data
  /\ site.env = "none" /\ "kixdns-panel" \notin site.accounts

\* However often a run failed on the way and was run again: when every run was asked to remove
\* everything, the one that ends leaves nothing of it, or the original KixDNS of a migrated
\* host (unless a run was interrupted after it removed the backup); when every run was asked
\* to keep KixDNS, it stays as it was; a KixDNS once kept without the settings, and one that
\* never was the panel's, stay whatever is asked.
AskedIsDone ==
  /\ ended /\ EverythingGoes /\ firstSite.env = "managed" =>
       /\ PanelIsGone
       /\ IF firstSite.backup = NoUnit
          THEN site.unit = NoUnit /\ ~site.config /\ site.accounts = {}
          ELSE lost \/ OriginalIsBack
  /\ \/ stays
     \/ firstSite.env = "foreign"
     \/ KixdnsStays /\ firstSite.program
     => /\ <<site.unit, site.program, site.config, site.off>>
             = <<firstSite.unit, firstSite.program, firstSite.config, firstSite.off>>
        /\ "kixdns" \in site.accounts
        /\ KixdnsStays => <<site.up, site.boots>> = <<firstSite.up, firstSite.boots>>

\* "On a host installed by migration, choosing to remove the enhanced build first restores the
\* pre-migration unit": it is there once such an uninstall ended, whatever failed before.
OriginalComesBack ==
  ended /\ EverythingGoes /\ firstSite.backup # NoUnit => site.unit = "original"
=============================================================================
