-------------------------- MODULE ScriptInstall_proofs --------------------------
(***************************************************************************)
(* Theorems about ScriptInstall, for any bounds.                           *)
(***************************************************************************)
EXTENDS ScriptInstall, TLAPS

-----------------------------------------------------------------------------
\* Sequences of notices.

LEMMA Appending ==
    ASSUME NEW s \in Seq(Notice), NEW n \in Notice
    PROVE  /\ Append(s, n) \in Seq(Notice)
           /\ Len(Append(s, n)) = Len(s) + 1
           /\ Append(s, n)[Len(s) + 1] = n
           /\ \A i \in 1..Len(s) : Append(s, n)[i] = s[i]
  OBVIOUS

LEMMA Hearing ==
    ASSUME NEW s \in Seq(Notice), s # <<>>
    PROVE  /\ Tail(s) \in Seq(Notice)
           /\ Len(Tail(s)) = Len(s) - 1
           /\ Head(s) = s[1]
           /\ Head(s) \in Notice
           /\ \A i \in 1..Len(Tail(s)) : Tail(s)[i] = s[i + 1]
  OBVIOUS

\* The empty sequence is one of notices, of no length.
LEMMA NoNotices == <<>> \in Seq(Notice) /\ Len(<<>>) = 0
  OBVIOUS

-----------------------------------------------------------------------------
(***************************************************************************)
(* The types, in three parts: truth values, the others, and what holds of  *)
(* them while the process does not run.                                    *)
(***************************************************************************)
FlagsOK ==
    /\ running \in BOOLEAN /\ asked \in BOOLEAN /\ usedUp \in BOOLEAN /\ commandFailed \in BOOLEAN
    /\ terminateWithItunes \in BOOLEAN /\ oneTimeOverride \in BOOLEAN
    /\ shortcut \in BOOLEAN /\ menuListed \in BOOLEAN

DataOK ==
    /\ apps \subseteq blockingAppIdentifiers
    /\ notices \in Seq(Notice) /\ Len(notices) <= MaxNotices
    /\ phase \in Phases
    /\ script \in Scripts
    /\ told \in Sheets
    /\ warnings \in 0..MaxWarnings /\ spared \in Nat

EndedOK == ~running => phase = "idle" /\ notices = <<>> /\ ~asked

LEMMA TypeParts == TypeOK <=> FlagsOK /\ DataOK /\ EndedOK
  BY DEF TypeOK, FlagsOK, DataOK, EndedOK

\* Every handler leaves truth values where they were.
LEMMA FlagsStep == FlagsOK /\ [Next]_vars => FlagsOK'
  <1> SUFFICES ASSUME FlagsOK, [Next]_vars PROVE FlagsOK'
    OBVIOUS
  <1> USE DEF FlagsOK, world, preferences, files, history
  <1>1. UNCHANGED vars => FlagsOK'
    BY DEF vars
  <1>2. applicationDidFinishLaunching => FlagsOK'
    BY DEF applicationDidFinishLaunching
  <1>3. Exit => FlagsOK'
    BY DEF Exit, ProcessEnds
  <1>4. setTerminateWithItunes => FlagsOK'
    BY DEF setTerminateWithItunes
  <1>5. ASSUME NEW app \in blockingAppIdentifiers PROVE AppLaunches(app) \/ AppQuits(app) => FlagsOK'
    BY DEF AppLaunches, AppQuits
  <1>6. InstallationRefused => FlagsOK'
    <2>1. InstallationRefused => asked' \in BOOLEAN
      BY DEF InstallationRefused
    <2> QED
      BY <2>1 DEF InstallationRefused
  <1>7. InstallationBegins \/ RemoveInstalled \/ CopyScript \/ ErrorDismissed => FlagsOK'
    BY DEF InstallationBegins, RemoveInstalled, CopyScript, ErrorDismissed
  <1>8. AssignShortcut => FlagsOK'
    BY DEF AssignShortcut, Command
  <1>9. ListInMenus => FlagsOK'
    BY DEF ListInMenus, Command
  <1>10. QuitIgnored \/ QuitSpared => FlagsOK'
    <2>1. QuitSpared => usedUp' \in BOOLEAN
      BY DEF QuitSpared, Spares
    <2> QED
      BY <2>1 DEF QuitIgnored, QuitSpared, Spares
  <1>11. TerminatesWithItunes => FlagsOK'
    BY DEF TerminatesWithItunes, ProcessEnds
  <1> QED
    BY <1>1, <1>2, <1>3, <1>4, <1>5, <1>6, <1>7, <1>8, <1>9, <1>10, <1>11
       DEF Next, applicationDidQuit

\* Every handler keeps the other types.
LEMMA DataStep == FlagsOK /\ DataOK /\ [Next]_vars => DataOK'
  <1> SUFFICES ASSUME FlagsOK, DataOK, [Next]_vars PROVE DataOK'
    OBVIOUS
  <1> USE DEF DataOK, world, preferences, files, history
  <1>1. UNCHANGED vars \/ setTerminateWithItunes => DataOK'
    BY DEF vars, setTerminateWithItunes
  <1>2. applicationDidFinishLaunching => DataOK'
    BY BoundsAssumption DEF applicationDidFinishLaunching
  <1>3. ProcessEnds /\ UNCHANGED <<apps, files, history>> => DataOK'
    BY NoNotices, BoundsAssumption DEF ProcessEnds, Phases, Sheets
  <1>4. ASSUME NEW app \in blockingAppIdentifiers PROVE AppLaunches(app) => DataOK'
    BY DEF AppLaunches
  <1>5. ASSUME NEW app \in blockingAppIdentifiers, AppQuits(app) PROVE DataOK'
    <2>1. [app |-> app, asked |-> asked /\ app = iTunes] \in Notice
      BY <1>5 DEF Notice, FlagsOK
    <2>2. notices' \in Seq(Notice) /\ Len(notices') <= MaxNotices
      BY <1>5, <2>1, Appending, BoundsAssumption DEF AppQuits
    <2> QED
      BY <1>5, <2>2 DEF AppQuits
  <1>6. InstallationRefused => DataOK'
    BY BoundsAssumption DEF InstallationRefused, Sheets
  <1>7. InstallationBegins => DataOK'
    BY DEF InstallationBegins, Sheets, Phases
  <1>8. RemoveInstalled \/ CopyScript => DataOK'
    BY DEF RemoveInstalled, CopyScript, Phases, Scripts
  <1>9. ErrorDismissed => DataOK'
    BY DEF ErrorDismissed, Phases, Sheets
  <1>10. AssignShortcut => DataOK'
    BY DEF AssignShortcut, Phases
  <1>11. ListInMenus => DataOK'
    BY DEF ListInMenus, Phases, Sheets
  <1>12. ASSUME Hears, QuitIgnored \/ QuitSpared PROVE DataOK'
    <2>1. notices' \in Seq(Notice) /\ Len(notices') <= MaxNotices
      <3>1. notices # <<>> /\ notices' = Tail(notices)
        BY <1>12 DEF Hears, QuitIgnored, QuitSpared, Spares
      <3>2. Tail(notices) \in Seq(Notice) /\ Len(Tail(notices)) = Len(notices) - 1
        BY <3>1, Hearing
      <3>3. Len(notices) \in Nat
        OBVIOUS
      <3> QED
        BY <3>1, <3>2, <3>3, BoundsAssumption
    <2>2. spared' \in Nat
      BY <1>12 DEF QuitIgnored, QuitSpared, Spares
    <2> QED
      BY <1>12, <2>1, <2>2 DEF QuitIgnored, QuitSpared, Spares
  <1> QED
    BY <1>1, <1>2, <1>3, <1>4, <1>5, <1>6, <1>7, <1>8, <1>9, <1>10, <1>11, <1>12
       DEF Next, Exit, applicationDidQuit, TerminatesWithItunes

\* A process that does not run hears of nothing and installs nothing.
LEMMA EndedStep == FlagsOK /\ EndedOK /\ [Next]_vars => EndedOK'
  <1> SUFFICES ASSUME FlagsOK, EndedOK, [Next]_vars PROVE EndedOK'
    OBVIOUS
  <1> USE DEF EndedOK, world
  <1>1. running' /\ running' \in BOOLEAN => EndedOK'
    OBVIOUS
  <1>2. ProcessEnds => EndedOK'
    BY DEF ProcessEnds
  <1>3. UNCHANGED <<running, phase, notices, asked>> => EndedOK'
    OBVIOUS
  <1>4. ASSUME NEW app \in blockingAppIdentifiers, AppLaunches(app) \/ AppQuits(app) PROVE EndedOK'
    <2>1. CASE AppLaunches(app)
      BY <2>1 DEF AppLaunches
    <2>2. CASE AppQuits(app)
      BY <2>2 DEF AppQuits
    <2> QED
      BY <1>4, <2>1, <2>2
  <1>5. UNCHANGED vars \/ setTerminateWithItunes => UNCHANGED <<running, phase, notices, asked>>
    BY DEF vars, setTerminateWithItunes
  <1>6. ASSUME applicationDidFinishLaunching PROVE running'
    <2>1. running' = TRUE
      BY <1>6 DEF applicationDidFinishLaunching
    <2> QED
      BY <2>1
  <1>7. ASSUME InstallationRefused \/ InstallationBegins PROVE running'
    <2>1. running /\ running' = running
      BY <1>7 DEF InstallationRefused, InstallationBegins, Idle
    <2> QED
      BY <2>1
  <1>8. ASSUME RemoveInstalled \/ CopyScript \/ ErrorDismissed \/ AssignShortcut \/ ListInMenus
        PROVE  running'
    <2>1. phase # "idle"
      BY <1>8 DEF RemoveInstalled, CopyScript, ErrorDismissed, AssignShortcut, ListInMenus
    <2>2. UNCHANGED running
      BY <1>8 DEF RemoveInstalled, CopyScript, ErrorDismissed, AssignShortcut, ListInMenus
    <2> QED
      BY <2>1, <2>2 DEF FlagsOK
  <1>9. Hears /\ (QuitIgnored \/ QuitSpared) => running'
    BY DEF Hears, QuitIgnored, QuitSpared, Spares
  <1>10. running' \in BOOLEAN
    BY FlagsStep DEF FlagsOK
  <1> QED
    BY <1>1, <1>2, <1>3, <1>4, <1>5, <1>6, <1>7, <1>8, <1>9, <1>10
       DEF Next, Exit, applicationDidQuit, TerminatesWithItunes

LEMMA TypesStep == TypeOK /\ [Next]_vars => TypeOK'
  <1> SUFFICES ASSUME TypeOK, [Next]_vars PROVE TypeOK'
    OBVIOUS
  <1>1. FlagsOK /\ DataOK /\ EndedOK
    BY TypeParts
  <1>2. FlagsOK' /\ DataOK' /\ EndedOK'
    BY <1>1, FlagsStep, DataStep, EndedStep
  <1> QED
    BY <1>2 DEF TypeOK, FlagsOK, DataOK, EndedOK

(***************************************************************************)
(* The state of the installer and of the files it writes has its types, an *)
(* installation is under way only in a process that runs.                  *)
(***************************************************************************)
THEOREM InstallerTypeCorrect == Spec => []TypeOK
  <1>1. ASSUME Init PROVE TypeOK
    <2>1. FlagsOK /\ EndedOK
      BY <1>1 DEF Init, FlagsOK, EndedOK
    <2>2. DataOK
      BY <1>1, BoundsAssumption, NoNotices DEF Init, DataOK, Phases, Scripts, Sheets
    <2> QED
      BY <2>1, <2>2, TypeParts
  <1> QED
    BY <1>1, TypesStep, PTL DEF Spec

-----------------------------------------------------------------------------
(***************************************************************************)
(* What is confirmed is installed.  During the installation nothing is     *)
(* told, and each phase is entered only with what the ones before it left. *)
(***************************************************************************)
InstallInv ==
    /\ phase # "idle" => told = "nothing"
    /\ phase \in {"assigning", "listing"} => script = "current"
    /\ phase = "listing" /\ ~commandFailed => shortcut
    /\ ConfirmedScriptIsCurrent
    /\ ConfirmedShortcutWorks

THEOREM InstallInvariant == Spec => []InstallInv
  <1>1. Init => InstallInv
    BY DEF Init, InstallInv, ConfirmedScriptIsCurrent, ConfirmedShortcutWorks
  <1>2. TypeOK /\ InstallInv /\ [Next]_vars => InstallInv'
    <2> SUFFICES ASSUME TypeOK, InstallInv, [Next]_vars PROVE InstallInv'
      OBVIOUS
    <2> USE DEF InstallInv, ConfirmedScriptIsCurrent, ConfirmedShortcutWorks
    <2>1. CASE UNCHANGED <<phase, told, files, commandFailed>>
      BY <2>1 DEF files
    <2>2. CASE Exit \/ (applicationDidQuit /\ TerminatesWithItunes)
      BY <2>2 DEF Exit, TerminatesWithItunes, ProcessEnds
    <2>3. CASE InstallationRefused
      BY <2>3 DEF InstallationRefused, Idle
    <2>4. CASE InstallationBegins
      BY <2>4 DEF InstallationBegins
    <2>5. CASE RemoveInstalled
      BY <2>5 DEF RemoveInstalled
    <2>6. CASE CopyScript
      BY <2>6 DEF CopyScript
    <2>7. CASE ErrorDismissed
      BY <2>7 DEF ErrorDismissed
    <2>8. CASE AssignShortcut
      BY <2>8 DEF AssignShortcut, Command, TypeOK
    <2>9. CASE ListInMenus
      BY <2>9 DEF ListInMenus, Command, files, TypeOK
    <2>10. \/ UNCHANGED <<phase, told, files, commandFailed>>
           \/ Exit \/ (applicationDidQuit /\ TerminatesWithItunes)
           \/ InstallationRefused \/ InstallationBegins \/ RemoveInstalled \/ CopyScript
           \/ ErrorDismissed \/ AssignShortcut \/ ListInMenus
      BY DEF Next, vars, applicationDidFinishLaunching, setTerminateWithItunes, AppLaunches,
             AppQuits, applicationDidQuit, QuitIgnored, QuitSpared, Spares
    <2> QED
      BY <2>1, <2>2, <2>3, <2>4, <2>5, <2>6, <2>7, <2>8, <2>9, <2>10
  <1> QED
    BY <1>1, <1>2, InstallerTypeCorrect, PTL DEF Spec

\* Confirmed only with the whole new script in place, whatever failed before.
THEOREM ConfirmationIsTrue == Spec => []ConfirmedScriptIsCurrent
  <1>1. InstallInv => ConfirmedScriptIsCurrent
    BY DEF InstallInv
  <1> QED
    BY <1>1, InstallInvariant, PTL

\* Confirmed only with the whole shortcut, unless a command failed.
THEOREM ShortcutIsComplete == Spec => []ConfirmedShortcutWorks
  <1>1. InstallInv => ConfirmedShortcutWorks
    BY DEF InstallInv
  <1> QED
    BY <1>1, InstallInvariant, PTL

-----------------------------------------------------------------------------
(***************************************************************************)
(* No override is used twice: in a launch, the warnings are at least the   *)
(* quits spared and the override still to be used.                         *)
(***************************************************************************)
OverrideInv ==
    /\ running => spared <= warnings
    /\ running /\ oneTimeOverride => spared + 1 <= warnings

THEOREM OverridesAreAskedFor == Spec => []SparedAtMostAsOftenAsAsked
  <1>1. Init => OverrideInv
    BY DEF Init, OverrideInv
  <1>2. TypeOK /\ OverrideInv /\ [Next]_vars => OverrideInv'
    <2> SUFFICES ASSUME TypeOK, OverrideInv, [Next]_vars PROVE OverrideInv'
      OBVIOUS
    <2>1. warnings \in Nat /\ spared \in Nat
      BY BoundsAssumption DEF TypeOK
    <2>2. CASE UNCHANGED <<running, oneTimeOverride, warnings, spared>>
      BY <2>2 DEF OverrideInv
    <2>3. CASE applicationDidFinishLaunching
      BY <2>3 DEF applicationDidFinishLaunching, OverrideInv
    <2>4. CASE running' = FALSE
      BY <2>4 DEF OverrideInv
    <2>5. CASE InstallationRefused
      BY <2>1, <2>5 DEF InstallationRefused, Idle, OverrideInv
    <2>6. CASE Hears /\ QuitSpared
      BY <2>1, <2>6 DEF Hears, QuitSpared, Spares, OverrideInv
    <2>7. \/ UNCHANGED <<running, oneTimeOverride, warnings, spared>>
          \/ applicationDidFinishLaunching
          \/ running' = FALSE
          \/ InstallationRefused
          \/ Hears /\ QuitSpared
      BY DEF Next, vars, history, preferences, Exit, ProcessEnds, setTerminateWithItunes,
             AppLaunches, AppQuits, InstallationBegins, RemoveInstalled, CopyScript,
             ErrorDismissed, AssignShortcut, ListInMenus, applicationDidQuit, QuitIgnored,
             TerminatesWithItunes
    <2> QED
      BY <2>2, <2>3, <2>4, <2>5, <2>6, <2>7
  <1>3. OverrideInv => SparedAtMostAsOftenAsAsked
    BY DEF OverrideInv, SparedAtMostAsOftenAsAsked
  <1> QED
    BY <1>1, <1>2, <1>3, InstallerTypeCorrect, PTL DEF Spec

-----------------------------------------------------------------------------
(***************************************************************************)
(* While a quit that was asked for is still to come, the override is       *)
(* there, unless another quit of iTunes used it up since.                  *)
(***************************************************************************)
AskedInv ==
    /\ asked => oneTimeOverride \/ usedUp
    /\ \A i \in 1..Len(notices) : notices[i].asked => oneTimeOverride \/ usedUp

LEMMA AskedStep == TypeOK /\ AskedInv /\ [Next]_vars => AskedInv'
  <1> SUFFICES ASSUME TypeOK, AskedInv, [Next]_vars PROVE AskedInv'
    OBVIOUS
  <1>1. notices \in Seq(Notice) /\ Len(notices) \in Nat
    BY DEF TypeOK
  <1>2. CASE UNCHANGED <<asked, usedUp, notices, oneTimeOverride>>
    BY <1>2 DEF AskedInv
  <1>3. CASE ProcessEnds
    BY <1>3 DEF AskedInv, ProcessEnds
  <1>4. CASE applicationDidFinishLaunching
    <2>1. asked' = FALSE /\ notices' = <<>>
      BY <1>4 DEF applicationDidFinishLaunching, TypeOK, world
    <2> QED
      BY <2>1 DEF AskedInv
  <1>5. CASE InstallationRefused
    <2>1. oneTimeOverride'
      BY <1>5 DEF InstallationRefused
    <2> QED
      BY <2>1 DEF AskedInv
  <1>6. ASSUME NEW app \in blockingAppIdentifiers, AppQuits(app) PROVE AskedInv'
    <2> DEFINE notice == [app |-> app, asked |-> asked /\ app = iTunes]
    <2>1. notice \in Notice
      BY DEF Notice, TypeOK
    <2>2. /\ UNCHANGED <<oneTimeOverride, usedUp>>
          /\ asked' => asked
          /\ notices' = notices \/ notices' = Append(notices, notice)
      BY <1>6 DEF AppQuits, preferences
    <2>3. CASE notices' = notices
      BY <2>2, <2>3 DEF AskedInv
    <2>4. CASE notices' = Append(notices, notice)
      <3>1. /\ Len(notices') = Len(notices) + 1
            /\ notices'[Len(notices) + 1] = notice
            /\ \A i \in 1..Len(notices) : notices'[i] = notices[i]
        BY <1>1, <2>1, <2>4, Appending
      <3>2. notice.asked => asked
        OBVIOUS
      <3> HIDE DEF notice
      <3>3. ASSUME NEW i \in 1..Len(notices'), notices'[i].asked
            PROVE  oneTimeOverride' \/ usedUp'
        <4>1. CASE i \in 1..Len(notices)
          BY <2>2, <3>1, <3>3, <4>1 DEF AskedInv
        <4>2. CASE i = Len(notices) + 1
          BY <2>2, <3>1, <3>2, <3>3, <4>2 DEF AskedInv
        <4> QED
          BY <1>1, <3>1, <4>1, <4>2
      <3> QED
        BY <2>2, <3>3 DEF AskedInv
    <2> QED
      BY <2>2, <2>3, <2>4
  <1>7. ASSUME Hears, QuitIgnored PROVE AskedInv'
    <2>1. notices # <<>> /\ notices' = Tail(notices) /\ UNCHANGED <<asked, usedUp, oneTimeOverride>>
      BY <1>7 DEF Hears, QuitIgnored, preferences
    <2>2. \A i \in 1..Len(notices') : i + 1 \in 1..Len(notices) /\ notices'[i] = notices[i + 1]
      BY <1>1, <2>1, Hearing
    <2> QED
      BY <2>1, <2>2 DEF AskedInv
  <1>8. CASE QuitSpared
    <2>1. usedUp'
      BY <1>8 DEF QuitSpared, Spares
    <2> QED
      BY <2>1 DEF AskedInv
  <1>9. \/ UNCHANGED <<asked, usedUp, notices, oneTimeOverride>>
        \/ ProcessEnds
        \/ applicationDidFinishLaunching
        \/ InstallationRefused
        \/ \E app \in blockingAppIdentifiers : AppQuits(app)
        \/ Hears /\ (QuitIgnored \/ QuitSpared)
    BY DEF Next, vars, world, preferences, Exit, setTerminateWithItunes, AppLaunches,
           InstallationBegins, RemoveInstalled, CopyScript, ErrorDismissed, AssignShortcut,
           ListInMenus, applicationDidQuit, TerminatesWithItunes
  <1> QED
    BY <1>2, <1>3, <1>4, <1>5, <1>6, <1>7, <1>8, <1>9

(***************************************************************************)
(* applicationDidQuit terminates the application for a quit the            *)
(* installation asked for only when an earlier quit of iTunes has used the *)
(* override up.                                                            *)
(***************************************************************************)
THEOREM QuitsAskedForAreSpared == Spec => AskedQuitIsSpared
  <1>1. Init => AskedInv
    BY DEF Init, AskedInv
  <1>2. TypeOK /\ AskedInv /\ [Next]_vars
            => [applicationDidQuit /\ Head(notices).asked => running' \/ usedUp]_vars
    <2> SUFFICES ASSUME TypeOK, AskedInv, applicationDidQuit, Head(notices).asked, ~usedUp
                 PROVE  running'
      OBVIOUS
    <2>1. notices \in Seq(Notice) /\ notices # <<>> /\ running
      BY DEF TypeOK, applicationDidQuit, Hears
    <2>2. Head(notices) = notices[1] /\ 1 \in 1..Len(notices)
      BY <2>1
    <2>3. oneTimeOverride
      BY <2>2 DEF AskedInv
    <2>4. UNCHANGED running
      BY <2>3 DEF applicationDidQuit, QuitIgnored, QuitSpared, Spares, TerminatesWithItunes
    <2> QED
      BY <2>1, <2>4
  <1> QED
    BY <1>1, <1>2, AskedStep, InstallerTypeCorrect, PTL DEF Spec, AskedQuitIsSpared
===============================================================================
