----------------------- MODULE MCApplicationServices ------------------------
(* The services around the connection for TLC: the Campus Browser's window,  *)
(* tabs, logins, downloads and portal data, the secondary authentication,    *)
(* the connection made at launch, the school profiles, their onboarding and  *)
(* the move of a flat installation.                                          *)
(* They share no state in the code either, so a behaviour is one of `part`,  *)
(* chosen at the start, while the others rest where they began.              *)
EXTENDS BrowserWindow, BrowserTabs, CampusCredentials, BrowserDownloads, PortalData,
        ConnectionServices, SchoolProfiles, SchoolOnboarding, LegacyMigration

VARIABLE part

\* The variables of the two halves, and of all.
pageVars == <<windowVars, tabVars, credentialVars, downloadVars>>
dataVars == <<portalVars, authVars, networkVars>>
workspaceVars == <<profileVars, onboardingVars, migrationVars>>
serviceVars == <<part, pageVars, dataVars, workspaceVars>>

MCInit ==
  /\ part \in {"window", "tabs", "logins", "downloads", "portal", "authentication", "launch",
               "profiles", "onboarding", "migration"}
  /\ WindowInit /\ TabsInit /\ CredentialInit /\ DownloadInit /\ PortalInit /\ AuthInit /\ NetworkInit
  /\ ProfilesInit /\ OnboardingInit /\ MigrationInit
  \* A part that rests does so in one of its initial states.
  /\ part # "portal" => context = CHOOSE k \in Keys : TRUE
  /\ part # "migration" => last = Empty
  /\ part # "launch" => network = "online"

MCNext ==
  /\ UNCHANGED part
  /\ \/ /\ UNCHANGED <<dataVars, workspaceVars>>
        /\ \/ part = "window" /\ WindowNext /\ UNCHANGED <<tabVars, credentialVars, downloadVars>>
           \/ part = "tabs" /\ TabsNext /\ UNCHANGED <<windowVars, credentialVars, downloadVars>>
           \/ part = "logins" /\ CredentialNext /\ UNCHANGED <<windowVars, tabVars, downloadVars>>
           \/ part = "downloads" /\ DownloadNext /\ UNCHANGED <<windowVars, tabVars, credentialVars>>
     \/ /\ UNCHANGED <<pageVars, workspaceVars>>
        /\ \/ part = "portal" /\ PortalNext /\ UNCHANGED <<authVars, networkVars>>
           \/ part = "authentication" /\ AuthNext /\ UNCHANGED <<portalVars, networkVars>>
           \/ part = "launch" /\ NetworkNext /\ UNCHANGED <<portalVars, authVars>>
     \/ /\ UNCHANGED <<pageVars, dataVars>>
        /\ \/ part = "profiles" /\ ProfilesNext /\ UNCHANGED <<onboardingVars, migrationVars>>
           \/ part = "onboarding" /\ OnboardingNext /\ UNCHANGED <<profileVars, migrationVars>>
           \/ part = "migration" /\ MigrationNext /\ UNCHANGED <<profileVars, onboardingVars>>

MCSpec == MCInit /\ [][MCNext]_serviceVars
=============================================================================
