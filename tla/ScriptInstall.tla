----------------------------- MODULE ScriptInstall -----------------------------
(***************************************************************************)
(* "Install iTunes AppleScript", and the termination of the application    *)
(* with iTunes, which the installation interferes with: it refuses to work *)
(* while iTunes or System Preferences run, asks the user to quit them, and *)
(* sets a one-time override so that doing as asked does not take the       *)
(* application down.                                                       *)
(*                                                                         *)
(* The installation is one handler on the main thread, but other programs  *)
(* start and quit during it, the process may die in the middle, and an     *)
(* error it presents runs a nested loop: phase says how far it is.  What   *)
(* the workspace tells of other programs waits for the main thread         *)
(* (notices).                                                              *)
(***************************************************************************)
EXTENDS Naturals, Sequences

CONSTANTS
    MaxNotices,     \* bound: notices that wait
    MaxWarnings     \* bound: warnings in a launch

ASSUME BoundsAssumption == MaxNotices \in Nat /\ MaxWarnings \in Nat

VARIABLES
    running,        \* the application runs
    apps,           \* which of the blocking applications run
    notices,        \* quits of theirs the main thread has not heard of yet
    terminateWithItunes, oneTimeOverride,   \* user defaults
    phase,          \* "idle", "removing", "copying", "presentingError",
                    \* "assigning" or "listing"
    script,         \* the file in the Scripts folder
    shortcut,       \* com.apple.iTunes has the key equivalent
    menuListed,     \* com.apple.universalaccess lists iTunes
    told,           \* the last sheet
    commandFailed,  \* history: a defaults command of the last installation failed
    asked,          \* history: the user was asked to quit the iTunes that runs now
    usedUp,         \* history: a quit of iTunes used up the override last asked for
    warnings, spared    \* history: of this launch

files == <<script, shortcut, menuListed>>
preferences == <<terminateWithItunes, oneTimeOverride>>
world == <<apps, notices, asked, usedUp>>
history == <<warnings, spared>>
vars == <<running, world, preferences, phase, files, told, commandFailed, history>>

iTunes == "com.apple.iTunes"
SystemPreferences == "com.apple.systempreferences"

blockingAppIdentifiers == {iTunes, SystemPreferences}

Notice == [app : blockingAppIdentifiers, asked : BOOLEAN]

Init ==
    /\ running = FALSE
    /\ apps = {}
    /\ notices = <<>>
    /\ terminateWithItunes = TRUE
    /\ oneTimeOverride = FALSE
    /\ phase = "idle"
    /\ script \in {"none", "old"}
    /\ shortcut \in BOOLEAN
    /\ menuListed \in BOOLEAN
    /\ told = "nothing"
    /\ commandFailed = FALSE
    /\ asked = FALSE
    /\ usedUp = FALSE
    /\ warnings = 0
    /\ spared = 0

-----------------------------------------------------------------------------
applicationDidFinishLaunching_KeepsOverride ==  \* mutant: the override outlives the launch
    /\ ~running
    /\ running' = TRUE
    /\ warnings' = 0
    /\ spared' = 0
    /\ UNCHANGED <<world, preferences, phase, files, told, commandFailed>>

applicationDidFinishLaunching ==
    /\ ~running
    /\ running' = TRUE
    /\ oneTimeOverride' = FALSE
    /\ warnings' = 0
    /\ spared' = 0
    /\ UNCHANGED <<world, terminateWithItunes, phase, files, told, commandFailed>>

\* The process ends: what waited for it is lost, and so is what it asked for.
ProcessEnds ==
    /\ running' = FALSE
    /\ phase' = "idle"
    /\ told' = "nothing"
    /\ notices' = <<>>
    /\ asked' = FALSE
    /\ usedUp' = FALSE

\* The user quits, or the process dies, anywhere.
Exit ==
    /\ running
    /\ ProcessEnds
    /\ UNCHANGED <<apps, preferences, files, commandFailed, history>>

\* The preferences window.
setTerminateWithItunes ==
    /\ running /\ phase = "idle"
    /\ terminateWithItunes' = ~terminateWithItunes
    /\ UNCHANGED <<running, world, oneTimeOverride, phase, files, told, commandFailed, history>>

AppLaunches(app) ==
    /\ app \notin apps
    /\ apps' = apps \cup {app}
    /\ UNCHANGED <<running, notices, asked, usedUp, preferences, phase, files, told, commandFailed, history>>

AppQuits(app) ==
    /\ app \in apps
    /\ Len(notices) < MaxNotices
    /\ apps' = apps \ {app}
    /\ notices' = IF running THEN Append(notices, [app |-> app, asked |-> asked /\ app = iTunes])
                             ELSE notices
    /\ asked' = (asked /\ app # iTunes)
    /\ UNCHANGED <<running, usedUp, preferences, phase, files, told, commandFailed, history>>

-----------------------------------------------------------------------------
canInstalliTunesAppleScript == apps \cap blockingAppIdentifiers = {}

Idle == running /\ phase = "idle"

(***************************************************************************)
(* The installation is refused, and the user is asked to quit what blocks  *)
(* it; quits that happened earlier may still wait to be heard of.          *)
(***************************************************************************)
InstallationRefused ==
    /\ Idle
    /\ ~canInstalliTunesAppleScript
    /\ warnings < MaxWarnings
    /\ told' = "quit_blocking_apps"
    /\ oneTimeOverride' = TRUE
    /\ warnings' = warnings + 1
    /\ asked' = (asked \/ iTunes \in apps)
    /\ usedUp' = FALSE
    /\ UNCHANGED <<running, apps, notices, terminateWithItunes, phase, files, commandFailed, spared>>

InstallationBegins ==
    /\ Idle
    /\ canInstalliTunesAppleScript
    /\ told' = "nothing"
    /\ commandFailed' = FALSE
    /\ phase' = "removing"
    /\ UNCHANGED <<running, world, preferences, files, history>>

\* An installed script is removed; creating the folder or removing may fail.
RemoveInstalled ==
    /\ phase = "removing"
    /\ \/ phase' = "copying" /\ script' = "none"
       \/ phase' = "presentingError" /\ UNCHANGED script
    /\ UNCHANGED <<running, world, preferences, shortcut, menuListed, told, commandFailed, history>>

CopyScript_InPlace ==  \* mutant: the copy goes over what is there
    /\ phase = "copying"
    /\ \/ phase' = "assigning" /\ script' = "mixed"
       \/ phase' = "presentingError" /\ script' \in {"none", "partial"}
    /\ UNCHANGED <<running, world, preferences, shortcut, menuListed, told, commandFailed, history>>

CopyScript_ErrorIgnored ==  \* mutant: copyiTunesAppleScript answers YES in any case
    /\ phase = "copying"
    /\ phase' = "assigning"
    /\ script' \in {"current", "none", "partial"}
    /\ UNCHANGED <<running, world, preferences, shortcut, menuListed, told, commandFailed, history>>

\* A copy that fails may leave a part of the file.
CopyScript ==
    /\ phase = "copying"
    /\ \/ phase' = "assigning" /\ script' = "current"
       \/ phase' = "presentingError" /\ script' \in {"none", "partial"}
    /\ UNCHANGED <<running, world, preferences, shortcut, menuListed, told, commandFailed, history>>

ErrorDismissed ==
    /\ phase = "presentingError"
    /\ phase' = "idle"
    /\ told' = "cant_install_applescript"
    /\ UNCHANGED <<running, world, preferences, files, commandFailed, history>>

\* A defaults command, whose result is logged and not looked at.
Command(before, after) ==
    \/ after = TRUE /\ UNCHANGED commandFailed
    \/ after = before /\ commandFailed' = TRUE

AssignShortcut_Inverted ==  \* mutant: the negation before the dictionary's test is lost
    /\ phase = "assigning"
    /\ IF ~shortcut THEN UNCHANGED <<shortcut, commandFailed>> ELSE Command(shortcut, shortcut')
    /\ phase' = "listing"
    /\ UNCHANGED <<running, world, preferences, script, menuListed, told, history>>

AssignShortcut ==
    /\ phase = "assigning"
    /\ IF shortcut THEN UNCHANGED <<shortcut, commandFailed>> ELSE Command(shortcut, shortcut')
    /\ phase' = "listing"
    /\ UNCHANGED <<running, world, preferences, script, menuListed, told, history>>

\* createiTunesShortcut then answers YES: cant_configure_shortcut is never shown.
ListInMenus ==
    /\ phase = "listing"
    /\ IF menuListed THEN UNCHANGED <<menuListed, commandFailed>> ELSE Command(menuListed, menuListed')
    /\ phase' = "idle"
    /\ told' = "script_installation_confirmation"
    /\ UNCHANGED <<running, world, preferences, script, shortcut, history>>

\* The main thread hears of other programs between handlers and inside the error's loop.
Hears == running /\ phase \in {"idle", "presentingError"} /\ notices # <<>>

QuitIgnored ==
    /\ Head(notices).app # iTunes \/ ~terminateWithItunes
    /\ notices' = Tail(notices)
    /\ UNCHANGED <<running, apps, asked, usedUp, preferences, phase, files, told, commandFailed, history>>

\* A quit is spared, and the override with it is used up.
Spares ==
    /\ oneTimeOverride
    /\ oneTimeOverride' = FALSE
    /\ spared' = spared + 1
    /\ notices' = Tail(notices)
    /\ usedUp' = (Head(notices).app = iTunes)
    /\ UNCHANGED <<running, apps, asked, terminateWithItunes, phase, files, told, commandFailed, warnings>>

QuitSpared == Head(notices).app = iTunes /\ terminateWithItunes /\ Spares

TerminatesWithItunes ==
    /\ Head(notices).app = iTunes /\ terminateWithItunes
    /\ ~oneTimeOverride
    /\ ProcessEnds
    /\ UNCHANGED <<apps, preferences, files, commandFailed, history>>

applicationDidQuit_AnyApplication ==  \* mutant: the test for iTunes is missing
    /\ Hears
    /\ \/ ~terminateWithItunes /\ QuitIgnored
       \/ terminateWithItunes /\ Spares
       \/ terminateWithItunes /\ ~oneTimeOverride /\ ProcessEnds
          /\ UNCHANGED <<apps, preferences, files, commandFailed, history>>

applicationDidQuit == Hears /\ (QuitIgnored \/ QuitSpared \/ TerminatesWithItunes)

Next ==
    \/ applicationDidFinishLaunching
    \/ Exit
    \/ setTerminateWithItunes
    \/ \E app \in blockingAppIdentifiers : AppLaunches(app) \/ AppQuits(app)
    \/ InstallationRefused
    \/ InstallationBegins
    \/ RemoveInstalled
    \/ CopyScript
    \/ ErrorDismissed
    \/ AssignShortcut
    \/ ListInMenus
    \/ applicationDidQuit

Spec == Init /\ [][Next]_vars

-----------------------------------------------------------------------------
Scripts == {"none", "old", "partial", "current"}

Phases == {"idle", "removing", "copying", "presentingError", "assigning", "listing"}

Sheets == {"nothing", "quit_blocking_apps", "cant_install_applescript",
           "script_installation_confirmation"}

\* Types; an installation is under way and notices wait in a process that runs.
TypeOK ==
    /\ running \in BOOLEAN
    /\ apps \subseteq blockingAppIdentifiers
    /\ notices \in Seq(Notice) /\ Len(notices) <= MaxNotices
    /\ terminateWithItunes \in BOOLEAN /\ oneTimeOverride \in BOOLEAN
    /\ phase \in Phases
    /\ script \in Scripts /\ shortcut \in BOOLEAN /\ menuListed \in BOOLEAN
    /\ told \in Sheets
    /\ commandFailed \in BOOLEAN /\ asked \in BOOLEAN /\ usedUp \in BOOLEAN
    /\ warnings \in 0..MaxWarnings /\ spared \in Nat
    /\ ~running => phase = "idle" /\ notices = <<>> /\ ~asked

(***************************************************************************)
(* copyiTunesAppleScript removes the installed script before it copies the *)
(* new one: whichever of the steps failed, in this installation or an      *)
(* earlier one, the confirmation is shown only for the whole new script.   *)
(***************************************************************************)
ConfirmedScriptIsCurrent ==
    told = "script_installation_confirmation" => script = "current"

(***************************************************************************)
(* createiTunesShortcut ignores what its commands answer.  Unless one of   *)
(* them failed, whatever of the shortcut was there before, what is         *)
(* confirmed is complete.                                                  *)
(***************************************************************************)
ConfirmedShortcutWorks ==
    told = "script_installation_confirmation" /\ ~commandFailed => shortcut /\ menuListed

(***************************************************************************)
(* applicationDidQuit spares a quit of iTunes with the override only as    *)
(* often as installiTunesAppleScript asked for one in this launch: no      *)
(* override is used twice or left by an earlier launch.                    *)
(***************************************************************************)
SparedAtMostAsOftenAsAsked == running => spared <= warnings

(***************************************************************************)
(* A quit of iTunes the installation asked for does not take the           *)
(* application down, in whatever order the blocking applications quit and  *)
(* start again, and whatever the preference is set to meanwhile, with one  *)
(* exception: an earlier quit of iTunes, not yet heard of when the user    *)
(* was asked, uses the override up first.  Only a quit of iTunes does.     *)
(***************************************************************************)
AskedQuitIsSpared ==
    [][applicationDidQuit /\ Head(notices).asked => running' \/ usedUp]_vars
===============================================================================
