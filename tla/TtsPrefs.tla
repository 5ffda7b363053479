------------------------------ MODULE TtsPrefs ------------------------------
(***************************************************************************)
(* The text-to-speech preferences (tts.cpp, prefsdlg.cpp, conf.cpp): what  *)
(* gconf holds, what the program speaks with, and what the dialog shows.   *)
(*                                                                         *)
(* The engine and gender buttons come in pairs of which one is to be       *)
(* active.  Each handler sets buttons itself, and setting a button that    *)
(* changes by it runs the handler of that button before the setter         *)
(* returns: stack holds the handlers under way, the innermost first.  The  *)
(* dialog is loaded and saved in several steps between which the same may  *)
(* happen, any write to gconf may fail, and the program may be killed at   *)
(* any time.                                                               *)
(***************************************************************************)
EXTENDS Naturals, Sequences

CONSTANTS Languages, Unset

Keys == {"enabled", "engine", "gender", "language"}
Engines == {"espeak", "realpeople"}
Genders == {"male", "female"}
Buttons == {"enable"} \cup Engines \cup Genders
Other == [espeak |-> "realpeople", realpeople |-> "espeak",
          male |-> "female", female |-> "male"]
Fields == Engines \cup Genders \cup {"language"}

ASSUME LanguagesAssumption ==
    /\ "english" \in Languages
    /\ Unset \notin Languages \cup Engines \cup Genders /\ Unset \notin BOOLEAN

VARIABLES
    conf,       \* conf[key]: the value in gconf, or Unset
    Enabled, Engine,
    voice,      \* what espeak_SetVoiceByProperties was last given
    active,     \* the buttons of the dialog that are pressed
    sensitive,  \* the fields of the dialog that can be used
    picked,     \* the language picked in the dialog, or Unset
    pc,
    stack,      \* the handlers under way
    unsaved     \* the keys whose last write failed (history)

mem == <<Enabled, Engine, voice>>
dialog == <<active, sensitive, picked>>
vars == <<conf, mem, dialog, pc, stack, unsaved>>

Default == [enabled |-> TRUE, engine |-> "espeak", gender |-> "male",
            language |-> "english"]
Setting(key) == IF conf[key] = Unset THEN Default[key] ELSE conf[key]

-----------------------------------------------------------------------------
Init ==
    /\ conf = [key \in Keys |-> Unset]
    /\ Enabled = FALSE /\ Engine = "espeak"
    /\ voice = [language |-> Unset, gender |-> Unset]
    /\ active = {} /\ sensitive = {} /\ picked = Unset
    /\ pc = "off" /\ stack = <<>> /\ unsaved = {}

\* Tts::Tts
Start ==
    /\ pc = "off"
    /\ Enabled' = Setting("enabled") /\ Engine' = Setting("engine")
    /\ voice' = [language |-> Setting("language"), gender |-> Setting("gender")]
    /\ pc' = "main" /\ unsaved' = {}
    /\ UNCHANGED <<conf, dialog, stack>>

Kill ==
    /\ pc # "off"
    /\ pc' = "off" /\ stack' = <<>>
    /\ Enabled' = FALSE /\ Engine' = "espeak"
    /\ voice' = [language |-> Unset, gender |-> Unset]
    /\ active' = {} /\ sensitive' = {} /\ picked' = Unset
    /\ UNCHANGED <<conf, unsaved>>

-----------------------------------------------------------------------------
\* A button that is clicked changes and its handler runs, on top of below.
Clicked(b, below) ==
    /\ active' = IF b \in active THEN active \ {b} ELSE active \cup {b}
    /\ stack' = <<[button |-> b, at |-> 1]>> \o below

\* gtk_toggle_button_set_active(b, on) clicks the button if that changes it.
SetActive(b, on, below) ==
    IF (b \in active) = on THEN stack' = below /\ UNCHANGED active
    ELSE Clicked(b, below)

Top == stack[1]
Below == Tail(stack)
GoOn(at) == <<[Top EXCEPT !.at = at]>> \o Below

\* onTtsEnableButtonClicked
EnableHandler ==
    /\ stack # <<>> /\ Top.button = "enable"
    /\ sensitive' = IF "enable" \in active THEN Fields ELSE {}
    /\ stack' = Below
    /\ UNCHANGED <<conf, mem, active, picked, pc, unsaved>>

\* Mutant of GenderHandler: the other button gets the same state.
GenderHandlerSame ==
    /\ stack # <<>> /\ Top.button \in Genders
    /\ \/ Top.at = 1 /\ SetActive(Other[Top.button], Top.button \in active, GoOn(2))
       \/ Top.at = 2 /\ stack' = Below /\ UNCHANGED active
    /\ UNCHANGED <<conf, mem, sensitive, picked, pc, unsaved>>

\* onTtsGenderButtonClicked
GenderHandler ==
    /\ stack # <<>> /\ Top.button \in Genders
    /\ \/ Top.at = 1 /\ SetActive(Other[Top.button], Top.button \notin active, GoOn(2))
       \/ Top.at = 2 /\ stack' = Below /\ UNCHANGED active
    /\ UNCHANGED <<conf, mem, sensitive, picked, pc, unsaved>>

\* onTtsEngineButtonClicked: it sets the other button, then realpeople, then
\* the fields as its test of espeak before that said, then espeak.
EngineHandler ==
    /\ stack # <<>> /\ Top.button \in Engines
    /\ \/ /\ Top.at = 1
          /\ SetActive(Other[Top.button], Top.button \notin active, GoOn(2))
          /\ UNCHANGED sensitive
       \/ /\ Top.at = 2
          /\ LET on == "espeak" \in active
             IN  SetActive("realpeople", ~on, GoOn(IF on THEN 3 ELSE 4))
          /\ UNCHANGED sensitive
       \/ /\ Top.at = 3
          /\ sensitive' = sensitive \cup Genders \cup {"language"}
          /\ stack' = GoOn(5) /\ UNCHANGED active
       \/ /\ Top.at = 4
          /\ sensitive' = sensitive \ (Genders \cup {"language"})
          /\ stack' = GoOn(5) /\ UNCHANGED active
       \/ /\ Top.at = 5
          /\ SetActive("espeak", "realpeople" \notin active, GoOn(6))
          /\ UNCHANGED sensitive
       \/ Top.at = 6 /\ stack' = Below /\ UNCHANGED <<active, sensitive>>
    /\ UNCHANGED <<conf, mem, picked, pc, unsaved>>

Handler == EnableHandler \/ GenderHandler \/ EngineHandler

-----------------------------------------------------------------------------
\* CreatePrefsDialog, and TtsConfWidgetLoadConf, button by button.
OpenDialog ==
    /\ pc = "main"
    /\ active' = {} /\ sensitive' = Fields /\ picked' = Unset
    /\ pc' = "load1"
    /\ UNCHANGED <<conf, mem, stack, unsaved>>

LoadEnabled ==
    /\ pc = "load1" /\ stack = <<>>
    /\ SetActive("enable", Enabled, <<>>)
    /\ pc' = "load2"
    /\ UNCHANGED <<conf, mem, sensitive, picked, unsaved>>

LoadEngine ==
    /\ pc = "load2" /\ stack = <<>>
    /\ sensitive' = IF Enabled THEN sensitive \cup {"language"} ELSE sensitive \ {"language"}
    /\ SetActive(Setting("engine"), TRUE, <<>>)
    /\ pc' = "load3"
    /\ UNCHANGED <<conf, mem, picked, unsaved>>

LoadGender ==
    /\ pc = "load3" /\ stack = <<>>
    /\ SetActive(Setting("gender"), TRUE, <<>>)
    /\ pc' = "load4"
    /\ UNCHANGED <<conf, mem, sensitive, picked, unsaved>>

LoadLanguage ==
    /\ pc = "load4" /\ stack = <<>>
    /\ picked' = conf["language"]
    /\ pc' = "dialog"
    /\ UNCHANGED <<conf, mem, active, sensitive, stack, unsaved>>

\* gtk_dialog_run: the user presses buttons and picks a language,
Click ==
    /\ pc = "dialog" /\ stack = <<>>
    /\ \E b \in {"enable"} \cup (Buttons \cap sensitive) : Clicked(b, <<>>)
    /\ UNCHANGED <<conf, mem, sensitive, picked, pc, unsaved>>

Pick ==
    /\ pc = "dialog" /\ stack = <<>> /\ "language" \in sensitive
    /\ picked' \in Languages
    /\ UNCHANGED <<conf, mem, active, sensitive, pc, stack, unsaved>>

\* and saves, or closes the dialog.
Accept ==
    /\ pc = "dialog" /\ stack = <<>>
    /\ pc' = "save1"
    /\ UNCHANGED <<conf, mem, dialog, stack, unsaved>>

Close ==
    /\ pc = "dialog" /\ stack = <<>>
    /\ pc' = "main"
    /\ active' = {} /\ sensitive' = {} /\ picked' = Unset
    /\ UNCHANGED <<conf, mem, stack, unsaved>>

-----------------------------------------------------------------------------
\* Conf::SetBool, SetInt and SetString: gconf takes the value or not.
Write(key, value) ==
    \/ conf' = [conf EXCEPT ![key] = value] /\ unsaved' = unsaved \ {key}
    \/ unsaved' = unsaved \cup {key} /\ UNCHANGED conf

\* TtsConfWidgetSaveConf
SaveEnabled ==
    /\ pc = "save1"
    /\ Write("enabled", "enable" \in active)
    /\ Enabled' = IF "enabled" \in unsaved' THEN Enabled ELSE "enable" \in active
    /\ pc' = "save2"
    /\ UNCHANGED <<Engine, voice, dialog, stack>>

ShownEngine == IF "espeak" \in active THEN "espeak" ELSE "realpeople"
ShownGender == IF "male" \in active THEN "male" ELSE "female"

SaveEngine ==
    /\ pc = "save2"
    /\ Write("engine", ShownEngine)
    /\ pc' = "save3"
    /\ UNCHANGED <<mem, dialog, stack>>

SaveGender ==
    /\ pc = "save3"
    /\ Write("gender", ShownGender)
    /\ Engine' = ShownEngine
    /\ pc' = "save4"
    /\ UNCHANGED <<Enabled, voice, dialog, stack>>

\* Mutant of SaveLanguage: the voice is left alone if the language is the same.
SaveLanguageChanged ==
    /\ pc = "save4"
    /\ \/ /\ picked # Unset
          /\ Write("language", picked)
          /\ voice' = IF "language" \in unsaved' \/ picked = voice.language THEN voice
                      ELSE [language |-> picked, gender |-> ShownGender]
       \/ /\ picked = Unset
          /\ UNCHANGED <<conf, voice, unsaved>>
    /\ pc' = "main"
    /\ active' = {} /\ sensitive' = {} /\ picked' = Unset
    /\ UNCHANGED <<Enabled, Engine, stack>>

\* The voice is set only if a language is picked; the dialog goes.
SaveLanguage ==
    /\ pc = "save4"
    /\ \/ /\ picked # Unset
          /\ Write("language", picked)
          /\ voice' = IF "language" \in unsaved' THEN voice
                      ELSE [language |-> picked, gender |-> ShownGender]
       \/ /\ picked = Unset
          /\ UNCHANGED <<conf, voice, unsaved>>
    /\ pc' = "main"
    /\ active' = {} /\ sensitive' = {} /\ picked' = Unset
    /\ UNCHANGED <<Enabled, Engine, stack>>

Load == LoadEnabled \/ LoadEngine \/ LoadGender \/ LoadLanguage
Save == SaveEnabled \/ SaveEngine \/ SaveGender \/ SaveLanguage

Next == Handler \/ Load \/ Save \/ Start \/ Kill \/ OpenDialog \/ Click \/ Pick \/ Accept \/ Close

Spec == Init /\ [][Next]_vars

-----------------------------------------------------------------------------
\* Whenever the user can act or saves, one button of each pair is active, so that
\* what is saved is what the dialog shows, whichever button is looked at.
OneOfEach ==
    pc \in {"dialog", "save1", "save2", "save3", "save4"} /\ stack = <<>> =>
        /\ "espeak" \in active <=> "realpeople" \notin active
        /\ "male" \in active <=> "female" \notin active

\* What the program speaks with is what it would speak with after a restart, as
\* far as gconf took it.  The voice is set again only if a language is picked, and
\* until then is the one of the last start.
InEffect ==
    pc = "main" =>
        /\ Enabled = Setting("enabled")
        /\ "engine" \notin unsaved => Engine = Setting("engine")
        /\ conf["language"] # Unset /\ unsaved = {} =>
              voice = [language |-> conf["language"], gender |-> Setting("gender")]

\* What the dialog shows when it appears is in effect, or will be at the next
\* start; in particular, saving it untouched changes nothing.
ShowsSettings ==
    LoadLanguage => /\ "enable" \in active <=> Enabled
                    /\ ShownEngine = Setting("engine")
                    /\ ShownGender = Setting("gender")

\* Both, of every step: the buttons never come to show anything but a choice, and
\* at first show the one that was made.
ButtonsTruthful == [][ShowsSettings /\ OneOfEach']_vars
=============================================================================
