----------------------------- MODULE Language -----------------------------
(***************************************************************************)
(* The language of the application: the defaults "en" and "ar", the bundle *)
(* from which texts are taken (Bundle.setLanguage), and the screens that   *)
(* took their texts from it when they were loaded: the titles of the tab   *)
(* bar (AppDelegate.manageTabBar), ProfileVC, LanguageVC and               *)
(* ChooseLanguageVC.  Screens that are loaded anew each time they are shown*)
(* speak the bundle's language and are left out.                           *)
(*                                                                         *)
(* The actions are those of this component; Profile composes them with the *)
(* rest of the profile tab.                                                *)
(***************************************************************************)

VARIABLES
  en, ar,  \* UserDefaults "en" and "ar"
  bundle,  \* the language of the main bundle's texts
  root,    \* the screen at the bottom of the window or of its selected tab
  titles,  \* the language of the tab titles and of HomeVC, "" without tabs
  texts,   \* the language of ProfileVC's labels, "" before its viewDidLoad
  picker   \* LanguageVC or ChooseLanguageVC on screen: the button selected
           \* and the language of its texts

defaults == <<en, ar>>
langVars == <<defaults, bundle, root, titles, texts, picker>>

Languages == {"en", "ar"}
Roots == {"language", "login", "home", "profile"}
NoPicker == [button |-> "", text |-> ""]
Picking == picker # NoPicker

(* Faulty: the launch asks for "en", as the other screens do.              *)
StoredEnglish == IF en THEN "en" ELSE "ar"

(* AppDelegate: the bundle's language at a launch.                         *)
Stored == IF ar THEN "ar" ELSE "en"

(* Bundle.setLanguage: NSLocalizedString takes its texts there from now on.*)
SetLanguage(l) == bundle' = l

(* A new window without tabs, or with the home tab selected.               *)
Window(screen) ==
  /\ root' = screen
  /\ titles' = IF screen = "home" THEN bundle' ELSE ""
  /\ texts' = ""
  /\ picker' = NoPicker

LanguageInit ==
  /\ en = FALSE /\ ar = FALSE /\ bundle = "en"
  /\ root = "language" /\ titles = "" /\ texts = ""
  /\ picker = [button |-> "en", text |-> "en"]

(* didFinishLaunchingWithOptions, of a launch that is not the first.       *)
LaunchSpeaking(screen) ==
  /\ SetLanguage(Stored)
  /\ Window(screen)
  /\ UNCHANGED defaults

(* Faulty: btnContinue and labelLanguage keep their texts.                 *)
ChooseSilently(l) ==
  /\ Picking
  /\ en' = (l = "en") /\ ar' = (l = "ar")
  /\ SetLanguage(l)
  /\ picker' = [picker EXCEPT !.button = l]
  /\ UNCHANGED <<root, titles, texts>>

(* btnLangEng and btnlangArbic, of both screens.                           *)
Choose(l) ==
  /\ Picking
  /\ en' = (l = "en") /\ ar' = (l = "ar")
  /\ SetLanguage(l)
  /\ picker' = [button |-> l, text |-> l]
  /\ UNCHANGED <<root, titles, texts>>

(* ProfileVC.btnLanguage: the button to select is looked up under "en".    *)
OpenPicker ==
  /\ root = "profile" /\ ~Picking
  /\ picker' = [button |-> IF en THEN "en" ELSE "ar", text |-> bundle]
  /\ UNCHANGED <<defaults, bundle, root, titles, texts>>

(* ChooseLanguageVC.btnBack: what lies below keeps the texts it has.       *)
BackFromPicker ==
  /\ root = "profile" /\ Picking
  /\ picker' = NoPicker
  /\ UNCHANGED <<defaults, bundle, root, titles, texts>>

(* A root view controller is made: btnContinue, a login, a logout.         *)
NewWindow(screen) ==
  /\ UNCHANGED <<defaults, bundle>>
  /\ Window(screen)

(* A tab is selected: ProfileVC is loaded the first time.                  *)
ShowTab(tab) ==
  /\ root \in {"home", "profile"} \ {tab} /\ ~Picking
  /\ root' = tab
  /\ texts' = IF tab = "profile" /\ texts = "" THEN bundle ELSE texts
  /\ UNCHANGED <<defaults, bundle, titles, picker>>

(* The component by itself: windows are made and launches happen any time. *)
LanguageNext ==
  \/ \E l \in Languages : Choose(l)
  \/ OpenPicker \/ BackFromPicker
  \/ \E screen \in {"login", "home"} : NewWindow(screen) \/ LaunchSpeaking(screen)
  \/ \E tab \in {"home", "profile"} : ShowTab(tab)

LanguageSpec == LanguageInit /\ [][LanguageNext]_langVars
-----------------------------------------------------------------------------
LanguageTypeOK ==
  /\ <<en, ar>> \in BOOLEAN \X BOOLEAN
  /\ bundle \in Languages /\ root \in Roots
  /\ titles \in Languages \union {""} /\ texts \in Languages \union {""}
  /\ picker \in [button : Languages, text : Languages] \union {NoPicker}

(* After any choices and launches the texts come in the language chosen    *)
(* last, English before any choice, although the choice is kept in two     *)
(* defaults that different screens look at.                                *)
SpeaksChosen ==
  /\ ~(en /\ ar)
  /\ bundle = IF ar THEN "ar" ELSE "en"

(* Something on screen speaks, or shows as selected, another language than *)
(* the bundle's.                                                           *)
Mixed ==
  IF Picking THEN picker # [button |-> bundle, text |-> bundle]
  ELSE \/ root \in {"home", "profile"} /\ titles # bundle
       \/ root = "profile" /\ texts # bundle

(* The screen comes to mix languages in two ways only: ChooseLanguageVC is *)
(* left by its back button after a choice, or it is opened while neither   *)
(* default was ever set and shows Arabic as selected (ChooseLanguageVC 35).*)
OnlyBackMixes ==
  [][Mixed' => Mixed \/ BackFromPicker \/ (OpenPicker /\ ~en /\ ~ar)]_langVars

(* What keeps it so: pickers open where they belong, a window with tabs has*)
(* one language above the picker, and what is not loaded yet hides nothing.*)
LanguageInv ==
  /\ LanguageTypeOK
  /\ SpeaksChosen
  /\ root = "language" => Picking
  /\ Picking => root \in {"language", "profile"}
  /\ Picking /\ Mixed => root = "profile" /\ ~en /\ ~ar
  /\ root \in {"home", "profile"} => titles # ""
  /\ texts \in {"", titles}
  /\ root = "profile" => texts = titles
  /\ root = "home" /\ texts = "" => titles = bundle
=============================================================================
