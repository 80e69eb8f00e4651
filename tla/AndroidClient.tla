---------------------------- MODULE AndroidClient ----------------------------
(***************************************************************************)
(* The only screen of the Android app.  The language is the state of a     *)
(* LocaleManager, which lives in the container that each instance of       *)
(* MainActivity builds for itself; the screen is composed again after the  *)
(* language has changed, and keeps a localized Context from one            *)
(* composition to the next.                                                *)
(***************************************************************************)
EXTENDS Naturals

CONSTANT MaxTaps   \* bound: taps on the button, and new instances of the activity

ASSUME MaxTapsAssumption == MaxTaps \in Nat

AppLocales == {"en", "ur"}
SystemLocales == {"en", "ur"}   \* the locale of the device's own configuration
Direction(l) == IF l = "ur" THEN "Rtl" ELSE "Ltr"
Other(l) == IF l = "en" THEN "ur" ELSE "en"

VARIABLES
  locale,    \* LocaleManager.locale
  base,      \* the locale of LocalConfiguration
  context,   \* the remembered Context: the keys it was made for and its language
  frame,     \* the screen: the language of each text, the direction, the button's label
  taps       \* taps and new instances so far

androidVars == <<locale, base, context, frame, taps>>

None == [none |-> "none"]

\* onCreate: a new container, and with it the default language.
AndroidInit ==
  /\ locale = "en" /\ base \in SystemLocales
  /\ context = None /\ frame = None
  /\ taps = 0

-----------------------------------------------------------------------------
\* Mutant: the language is not among the keys.
RememberedByConfiguration ==
  IF context # None /\ context.keys[2] = base THEN context
  ELSE [keys |-> <<locale, base>>, strings |-> locale]

\* remember(locale, baseConfiguration): the old Context while both are the same.
LocalizedContext ==
  IF context # None /\ context.keys = <<locale, base>> THEN context
  ELSE [keys |-> <<locale, base>>, strings |-> locale]

\* The screen is composed from the language as it is then.
Compose ==
  /\ context' = LocalizedContext
  /\ frame' = [texts |-> LocalizedContext.strings, tag |-> locale,
               direction |-> Direction(locale), button |-> Other(locale)]
  /\ frame' # frame
  /\ UNCHANGED <<locale, base, taps>>

\* A tap on the button of the frame that is on the screen; the next may come before
\* the screen is composed again.
Toggle ==
  /\ frame # None /\ taps < MaxTaps
  /\ taps' = taps + 1
  /\ locale' = Other(locale)
  /\ UNCHANGED <<base, context, frame>>

\* A new instance: the manifest handles no configuration change itself, and the
\* process may be killed at any time.
onCreate ==
  /\ taps < MaxTaps
  /\ taps' = taps + 1
  /\ base' \in SystemLocales
  /\ locale' = "en"
  /\ context' = None /\ frame' = None

AndroidNext == Compose \/ Toggle \/ onCreate

AndroidSpec == AndroidInit /\ [][AndroidNext]_androidVars

-----------------------------------------------------------------------------
\* The user never sees a screen that is half in one language: texts, the printed
\* tag, the layout direction and the language that the button offers agree in every
\* frame, through fast taps, recreation and whatever the device's own language is
\* (FoundationScreen.kt 30-45).
ScreenIsOneLanguage ==
  frame # None => /\ frame.texts = frame.tag
                  /\ frame.direction = Direction(frame.tag)
                  /\ frame.button = Other(frame.tag)
=============================================================================
